---- MODULE Spec2Model ----
(***************************************************************************)
(* Plan execution engine of ui-state-capture (src/src/core/executor.ts).   *)
(* executeCheckpointedPlan drives one browser page through the checkpoints *)
(* of a plan, action by action, recovers a failing action with selectors   *)
(* asked from the planner, and saves one screenshot + meta.json per        *)
(* checkpoint.  The page and the planner are the environment: what they    *)
(* answer is drawn with \E from small sets at every step that asks them.   *)
(* Times are in milliseconds, as in the source.                            *)
(***************************************************************************)
EXTENDS Integers, Sequences, FiniteSets, TLC

VARIABLES
  plan,              \* checkpointedPlan.checkpoints, immutable during the run
  pc,                \* position of executeCheckpointedPlan
  ck,                \* checkpoint loop index (0-based, as in the source)
  ai,                \* action loop index (0-based)
  lastSelectorUsed,  \* Selector Memory
  page,              \* what the page showed to the direct path of the latest action
  res,               \* outcome record of the latest direct path (Resolution Result); the
                     \* page of a fill's retry is kept in it until the planner is asked
  dlg,               \* outcome of the latest wait for an expected_dialog
  cands,             \* orderedCandidates not yet tried by the recovery loop
  err,               \* the caught error of the failing action
  fx,                \* side effects on the page since the latest action started, in order
  log,               \* per-action completion log entries (console.log, line 556)
  trials,            \* the trials of the current recovery, in order
  started,           \* <<ck, ai>> of every action whose try block was entered
  thrown,            \* <<ck, ai>> of every action whose try block threw
  finished,          \* <<ck, ai>> of every action that completed or was recovered
  requests,          \* <<ck, ai>> of every callPlanner recovery request
  saved,             \* every saveCheckpoint call that wrote files, in order
  markers,           \* directories holding a .screenshot_saved marker
  failures,          \* failure.json documents written
  answer,            \* the snapshot and the planner response of the current recovery
  result             \* value returned by executeCheckpointedPlan

vars == <<plan, pc, ck, ai, lastSelectorUsed, page, res, dlg, cands, err, fx,
          log, trials, started, thrown, finished, requests, saved, markers, failures, answer,
          result>>

----------------------------------------------------------------------------
(* JavaScript values *)

\* null / undefined
NULL == "<null>"

\* JS truthiness of a string-or-null value
Truthy(s) == s # NULL /\ s # ""

----------------------------------------------------------------------------
(* String functions used by the executor *)

Char(s, i) == SubSeq(s, i, i)

RECURSIVE TrimLeft(_)
TrimLeft(s) ==
  IF Len(s) > 0 /\ Char(s, 1) = " " THEN TrimLeft(SubSeq(s, 2, Len(s))) ELSE s

RECURSIVE TrimRight(_)
TrimRight(s) ==
  IF Len(s) > 0 /\ Char(s, Len(s)) = " " THEN TrimRight(SubSeq(s, 1, Len(s) - 1)) ELSE s

\* String.prototype.trim
Trim(s) == TrimRight(TrimLeft(s))

\* s.replace(/["']/g, "")
RECURSIVE StripQuotes(_)
StripQuotes(s) ==
  IF Len(s) = 0 THEN ""
  ELSE (IF Char(s, 1) \in {"\"", "'"} THEN "" ELSE Char(s, 1))
         \o StripQuotes(SubSeq(s, 2, Len(s)))

UpperChars == "ABCDEFGHIJKLMNOPQRSTUVWXYZ"
LowerChars == "abcdefghijklmnopqrstuvwxyz"

LowerChar(c) ==
  IF \E i \in 1..Len(UpperChars) : Char(UpperChars, i) = c
  THEN Char(LowerChars, CHOOSE i \in 1..Len(UpperChars) : Char(UpperChars, i) = c)
  ELSE c

\* String.prototype.toLowerCase
RECURSIVE ToLower(_)
ToLower(s) ==
  IF Len(s) = 0 THEN "" ELSE LowerChar(Char(s, 1)) \o ToLower(SubSeq(s, 2, Len(s)))

\* String.prototype.includes
Includes(s, t) ==
  \E i \in 1..(Len(s) - Len(t) + 1) : SubSeq(s, i, i + Len(t) - 1) = t

\* the synthesized "contains text" reference of a click (line 443)
TextLoc(text) == ":has-text(\"" \o StripQuotes(Trim(text)) \o "\")"

----------------------------------------------------------------------------
(* Sequence helpers *)

SeqToSet(q) == {q[i] : i \in 1..Len(q)}

\* Array.prototype.includes
InSeq(x, q) == \E i \in 1..Len(q) : q[i] = x

\* Array.from(new Set(q)): first occurrences, in order
RECURSIVE Uniq(_)
Uniq(q) ==
  IF q = <<>> THEN <<>>
  ELSE LET r == Uniq(SubSeq(q, 1, Len(q) - 1))
           x == q[Len(q)]
       IN IF InSeq(x, r) THEN r ELSE Append(r, x)

\* Array.prototype.slice(0, n)
Slice(q, n) == SubSeq(q, 1, IF Len(q) < n THEN Len(q) ELSE n)

\* number of entries of q equal to x
Count(q, x) == Cardinality({i \in 1..Len(q) : q[i] = x})

----------------------------------------------------------------------------
(* The page, as the executor observes it through Playwright.               *)
(* A page maps a selector to the first element it locates.  An element     *)
(* has a kind, the time it appears (ms after the step began), and may      *)
(* detach after the interactivity checks and before it is used.            *)

\* polling pause of trySelectorsSimple
PollMs == 100

\* per-selector budget of the resolutions of waitForSelector and click
PerSelectorMs == 1200

\* per-selector budget of the resolution of the fill retry
RetrySelectorMs == 1000

\* cap on the recovery candidates
MaxRecoverySelectors == 12

Absent == [kind |-> "none", from |-> 0, detaches |-> FALSE]

El(pg, s) == IF s \in DOMAIN pg THEN pg[s] ELSE Absent

NoPage == [s \in {} |-> Absent]

\* DOM facts of an element kind, as read by count / isVisible / boundingBox /
\* isEnabled / evaluate
ElemAttr(kind) ==
  CASE kind = "none"    -> [count |-> 0, visible |-> FALSE, box |-> FALSE, enabled |-> FALSE,
                            tag |-> "", role |-> "", hasOnClick |-> FALSE, hasTabIndex |-> FALSE,
                            contenteditable |-> FALSE, throws |-> {}]
    [] kind = "div"     -> [count |-> 1, visible |-> TRUE, box |-> TRUE, enabled |-> TRUE,
                            tag |-> "div", role |-> "", hasOnClick |-> FALSE, hasTabIndex |-> FALSE,
                            contenteditable |-> FALSE, throws |-> {}]
    [] kind = "button"  -> [count |-> 1, visible |-> TRUE, box |-> TRUE, enabled |-> TRUE,
                            tag |-> "button", role |-> "", hasOnClick |-> FALSE, hasTabIndex |-> FALSE,
                            contenteditable |-> FALSE, throws |-> {}]
    [] kind = "input"   -> [count |-> 1, visible |-> TRUE, box |-> TRUE, enabled |-> TRUE,
                            tag |-> "input", role |-> "", hasOnClick |-> FALSE, hasTabIndex |-> FALSE,
                            contenteditable |-> FALSE, throws |-> {}]
    [] kind = "textbox" -> [count |-> 1, visible |-> TRUE, box |-> TRUE, enabled |-> TRUE,
                            tag |-> "div", role |-> "textbox", hasOnClick |-> FALSE, hasTabIndex |-> FALSE,
                            contenteditable |-> FALSE, throws |-> {}]

\* the element is in the DOM at the time of an interactivity check (start of the step)
AtCheck(e) == e.kind # "none" /\ e.from = 0

\* the element is in the DOM when it is used, now ms after the step began
AtUse(e, now) == e.kind # "none" /\ ~e.detaches /\ e.from <= now

\* what the probes of an element find: the facts of its kind, or, for an element
\* that is given by its facts, those facts; throws holds the probes that throw
Facts(e) == IF "facts" \in DOMAIN e THEN e.facts ELSE ElemAttr(e.kind)

\* the enabled-or-box test applied to either hint
clickableByEitherHint(hasOnClick, hasTabIndex, enabled, box) ==
  (hasOnClick \/ hasTabIndex) /\ (enabled \/ box)

\* the last two tests of isSelectorClickable (lines 236-238): a click handler
\* on an enabled or rendered element, or a tab index on an enabled element
clickableByHint(hasOnClick, hasTabIndex, enabled, box) ==
  (hasOnClick /\ (enabled \/ box)) \/ (hasTabIndex /\ enabled)

\* isSelectorClickable (lines 202-245): a probe that throws gives its .catch
\* default; page.locator throwing reaches the outer catch
isSelectorClickable(pg, selector) ==
  IF ~Truthy(selector) THEN FALSE
  ELSE LET e == El(pg, selector)
           a == Facts(e)
           count == IF "count" \in a.throws THEN 0 ELSE a.count
           visible == "isVisible" \notin a.throws /\ a.visible
           box == "boundingBox" \notin a.throws /\ a.box
           enabled == "isEnabled" \notin a.throws /\ a.enabled
           details ==
             IF "evaluate" \in a.throws
             THEN [tag |-> "", role |-> "", hasOnClick |-> FALSE, hasTabIndex |-> FALSE]
             ELSE [tag |-> a.tag, role |-> a.role, hasOnClick |-> a.hasOnClick,
                   hasTabIndex |-> a.hasTabIndex]
           role == ToLower(details.role)
       IN IF "locator" \in a.throws THEN FALSE
          ELSE IF ~AtCheck(e) \/ count = 0 THEN FALSE
          ELSE IF ~visible THEN FALSE
          ELSE IF ~box THEN FALSE
          ELSE IF details.tag \in {"button", "a", "input"} /\ enabled THEN TRUE
          ELSE IF (\E r \in {"button", "link", "menuitem", "option", "tab", "checkbox", "radio"} :
                      Includes(role, r)) /\ enabled THEN TRUE
          ELSE clickableByHint(details.hasOnClick, details.hasTabIndex, enabled, box)

\* isSelectorFillable
isSelectorFillable(pg, selector) ==
  IF ~Truthy(selector) THEN FALSE
  ELSE LET e == El(pg, selector)
           a == Facts(e)
       IN IF ~AtCheck(e) \/ a.count = 0 THEN FALSE
          ELSE IF ~a.visible THEN FALSE
          ELSE IF a.tag = "" THEN FALSE
          ELSE IF a.tag \in {"input", "textarea"} THEN TRUE
          ELSE IF a.contenteditable THEN TRUE
          ELSE IF a.role # "" /\ Includes(ToLower(a.role), "textbox") THEN TRUE
          ELSE FALSE

\* the three checks a filter can apply
Check(checkFn, pg, s) ==
  CASE checkFn = "clickable" -> isSelectorClickable(pg, s)
    [] checkFn = "fillable"  -> isSelectorFillable(pg, s)

\* filterSelectorsByCheck; checkFn = NULL is the call without a predicate
filterSelectorsByCheck(pg, selectors, checkFn) ==
  IF checkFn = NULL THEN SelectSeq(selectors, LAMBDA s : Truthy(s))
  ELSE SelectSeq(selectors, LAMBDA s : Truthy(s) /\ Check(checkFn, pg, s))

\* one candidate's polling loop: while (Date.now() < deadline)
RECURSIVE PollUntil(_, _, _, _)
PollUntil(pg, s, now, deadline) ==
  IF now >= deadline THEN FALSE
  ELSE LET e == El(pg, s)
           a == ElemAttr(e.kind)
       IN IF AtUse(e, now) /\ a.count > 0 /\ a.visible /\ a.box THEN TRUE
          ELSE PollUntil(pg, s, now + PollMs, deadline)

RECURSIVE TrySelectorsFrom(_, _, _, _)
TrySelectorsFrom(pg, selectors, perSelectorMs, now) ==
  IF selectors = <<>> THEN NULL
  ELSE LET s == Head(selectors)
       IN IF ~Truthy(s) THEN TrySelectorsFrom(pg, Tail(selectors), perSelectorMs, now)
          ELSE IF PollUntil(pg, s, now, now + perSelectorMs) THEN s
          ELSE TrySelectorsFrom(pg, Tail(selectors), perSelectorMs, now + perSelectorMs)

\* a resolver that returns the candidate that appears soonest
trySelectorsSoonest(pg, selectors, perSelectorMs) ==
  LET live == {k \in 1..Len(selectors) :
                 Truthy(selectors[k]) /\ AtUse(El(pg, selectors[k]), El(pg, selectors[k]).from)}
  IN IF live = {} THEN NULL
     ELSE selectors[CHOOSE k \in live :
                      \A j \in live :
                         \/ El(pg, selectors[k]).from < El(pg, selectors[j]).from
                         \/ (El(pg, selectors[k]).from = El(pg, selectors[j]).from /\ k <= j)]

\* trySelectorsSimple
trySelectorsSimple(pg, selectors, perSelectorMs) ==
  TrySelectorsFrom(pg, selectors, perSelectorMs, 0)

\* page.click / page.waitForSelector on a selector: Playwright waits for the
\* element up to the timeout, which exceeds every appearance time of the model
Reachable(pg, s) == AtUse(El(pg, s), El(pg, s).from)

\* loc.fill assigns the value of input-like elements and throws on the others
FillWorks(pg, s) == El(pg, s).kind = "input"

\* target of keystrokes typed without focusing a locator first
FOCUSED == "<focused element>"

Effect(op, target, text) == [op |-> op, target |-> target, text |-> text]

\* tryFillWithFallback: the loop over the selectors, then the last resort
RECURSIVE FillLoop(_, _, _, _, _)
FillLoop(pg, selectors, text, fallbackToKeyboard, tried) ==
  IF selectors = <<>>
  THEN IF fallbackToKeyboard
       THEN [success |-> TRUE, tried |-> tried, effects |-> <<Effect("keys", FOCUSED, text)>>]
       ELSE [success |-> FALSE, tried |-> tried, effects |-> <<>>]
  ELSE LET s == Head(selectors)
       IN IF ~Truthy(s) THEN FillLoop(pg, Tail(selectors), text, fallbackToKeyboard, tried)
          ELSE IF ~Reachable(pg, s)
               THEN FillLoop(pg, Tail(selectors), text, fallbackToKeyboard, Append(tried, s))
          ELSE IF FillWorks(pg, s)
               THEN [success |-> TRUE, tried |-> Append(tried, s),
                     effects |-> <<Effect("fill", s, text)>>]
          ELSE IF fallbackToKeyboard
               THEN [success |-> TRUE, tried |-> Append(tried, s),
                     effects |-> <<Effect("type", s, text)>>]
          ELSE FillLoop(pg, Tail(selectors), text, fallbackToKeyboard, Append(tried, s))

tryFillWithFallback(pg, selectors, text, fallbackToKeyboard) ==
  FillLoop(pg, selectors, text, fallbackToKeyboard, <<>>)

----------------------------------------------------------------------------
(* Plans: PlannerOutput.checkpoints, each with a name and an               *)
(* action_sequence of PlanAction records (src/src/core/planner.ts).        *)

\* a PlanAction of the given type with every optional field unset
PlanAction(type) ==
  [type |-> type, selector |-> <<>>, text |-> NULL, url |-> NULL,
   expected_dialog |-> NULL, fallback_to_keyboard |-> FALSE,
   checkpoint_name |-> NULL, wait_for |-> <<>>]

\* an undefined entry of an action_sequence (if (!action) continue)
Undefined == PlanAction(NULL)

A == "#a"
B == "#b"
C == "#c"
BtnNew == "role=button[name='New']"
Dialog == "role=dialog"
Textbox == "role=textbox"

Goto(url) == [PlanAction("goto") EXCEPT !.url = url]
WaitFor(sel) == [PlanAction("waitForSelector") EXCEPT !.selector = sel]
Click(sel, text, dialog) ==
  [PlanAction("click") EXCEPT !.selector = sel, !.text = text, !.expected_dialog = dialog]
Fill(sel, text, dialog, keyboard) ==
  [PlanAction("fill") EXCEPT !.selector = sel, !.text = text, !.expected_dialog = dialog,
                             !.fallback_to_keyboard = keyboard]
Screenshot(name) == [PlanAction("screenshot") EXCEPT !.checkpoint_name = name]
Pause == PlanAction("waitForTimeout")

Checkpoint(name, actions) == [name |-> name, action_sequence |-> actions]

\* the end-to-end scenario: open a dialog, then fill a field
CkOpen ==
  Checkpoint("open", <<Goto("https://example.test"), WaitFor(<<BtnNew>>),
                       Click(<<BtnNew>>, NULL, Dialog), Screenshot("dialog_open")>>)
CkFill ==
  Checkpoint("fill", <<Fill(<<Textbox>>, "Alpha", NULL, FALSE), Screenshot("filled")>>)
PlanE2E == <<CkOpen, CkFill>>

\* a wait followed by a click that may reuse the remembered selector
CkOneShot == Checkpoint("oneshot", <<WaitFor(<<A, B>>), Click(<<C>>, NULL, NULL)>>)

\* a click with two candidates and a text hint; no capture action
CkPriority == Checkpoint("priority", <<Click(<<A, B>>, " New", NULL)>>)

\* a fill with no candidate that allows the keyboard fallback
CkKeys == Checkpoint("keys", <<Fill(<<>>, "hello", NULL, TRUE)>>)

\* a wait followed by a fill that expects a follow-on element
CkRetry == Checkpoint("retry", <<WaitFor(<<A>>), Fill(<<A, C>>, "hi", Dialog, FALSE)>>)

\* two captures under one name
CkTwoShots == Checkpoint("twice", <<Screenshot("shot"), Screenshot("shot")>>)

\* a capture that names the checkpoint's own directory
CkOwnDir == Checkpoint("own", <<Pause, Screenshot("own_checkpoint")>>)

\* an undefined entry, an action of an unknown type, and an empty checkpoint
CkOdd == Checkpoint("odd", <<Undefined, PlanAction("hover")>>)
CkEmpty == Checkpoint("empty", <<>>)

\* a checkpoint that only loads a page
CkGo == Checkpoint("go", <<Goto("https://example.test")>>)

\* a click followed by a fill: the fill does not follow a wait
CkChain == Checkpoint("chain", <<Click(<<A>>, NULL, NULL), Fill(<<C>>, "x", NULL, FALSE)>>)

\* a wait followed by a click with a text hint
CkHint == Checkpoint("hint", <<WaitFor(<<A>>), Click(<<B>>, "New", NULL)>>)

\* a click with a text hint of two characters
CkShort == Checkpoint("short", <<Click(<<A>>, "OK", NULL)>>)

\* a wait that declares an expected_dialog
CkAwait == Checkpoint("await", <<[WaitFor(<<A>>) EXCEPT !.expected_dialog = Dialog]>>)

\* a wait followed by a capture that declares an expected_dialog and a wait_for
CkVerify ==
  Checkpoint("verify", <<WaitFor(<<A>>),
                         [Screenshot("seen") EXCEPT !.expected_dialog = Dialog,
                                                    !.wait_for = <<B>>]>>)

Plans ==
  { <<>>,
    PlanE2E,
    <<CkOneShot, CkOwnDir>>,
    <<CkPriority, CkTwoShots>>,
    <<CkKeys, CkEmpty>>,
    <<CkRetry>>,
    <<CkOdd, CkOneShot>>,
    <<CkEmpty>>,
    <<CkChain>>,
    <<CkHint>>,
    <<CkShort>>,
    <<CkAwait>>,
    <<CkVerify>>,
    <<CkGo>> }

\* the plans that are also run over the storage area of an earlier run
Reruns == {<<CkKeys, CkEmpty>>, <<CkChain>>}

\* name of a checkpoint as the executor uses it (line 353)
CheckpointName(checkpoint) == checkpoint.name \o "_checkpoint"

----------------------------------------------------------------------------
(* The try block of one action (lines 367-560), per action type.  Each     *)
(* path yields: ok (no exception), last (lastSelectorUsed afterwards),     *)
(* chosen (chosenSelector), effects (what was done to the page), error     *)
(* (the exception text), logged (the completion log line was reached) and  *)
(* dlg (the outcome of the wait for expected_dialog).                      *)

Outcome(ok, last, chosen, effects, error, logged, dlgSeen) ==
  [ok |-> ok, last |-> last, chosen |-> chosen, effects |-> effects,
   error |-> error, logged |-> logged, dlg |-> dlgSeen]

Completed(last, chosen, effects, dlgSeen) ==
  Outcome(TRUE, last, chosen, effects, NULL, TRUE, dlgSeen)

Thrown(last, chosen, effects, error, dlgSeen) ==
  Outcome(FALSE, last, chosen, effects, error, FALSE, dlgSeen)

\* a one-shot reuse that does not look at the type of the previous action
shouldUseAfterAnyAction(actions, i, last) ==
  /\ i > 0
  /\ actions[i].type # NULL
  /\ actions[i + 1].type \in {"click", "fill"}
  /\ Truthy(last)

\* shouldUseLastSelectorOneShot (lines 370-371); ai is 0-based
shouldUseLastSelectorOneShot(actions, i, last) ==
  /\ i > 0
  /\ actions[i].type # NULL
  /\ actions[i].type = "waitForSelector"
  /\ actions[i + 1].type \in {"click", "fill"}
  /\ Truthy(last)

\* lastSelectorUsed after the one-shot check of a click or a fill
AfterOneShotCheck(shouldUse, last, pg, checkFn) ==
  IF shouldUse /\ Truthy(last) /\ ~Check(checkFn, pg, last) THEN NULL ELSE last

\* a merge that puts the remembered selector after the declared ones
mergedSelectorsLast(shouldUse, last, selectorsOrig) ==
  Uniq(SelectSeq(selectorsOrig, LAMBDA s : Truthy(s))
         \o (IF shouldUse /\ Truthy(last) THEN <<last>> ELSE <<>>))

\* mergedSelectors: the remembered selector first, then the declared ones
mergedSelectors(shouldUse, last, selectorsOrig) ==
  Uniq((IF shouldUse /\ Truthy(last) THEN <<last>> ELSE <<>>)
         \o SelectSeq(selectorsOrig, LAMBDA s : Truthy(s)))

\* the candidates handed to the filter and to the fill retry
CandidateList(merged, selectorsOrig) == IF Len(merged) > 0 THEN merged ELSE selectorsOrig

\* a click that never falls back to its text hint
HasNoTextHint(action) == FALSE

\* the text hint of a click is usable (line 442)
HasTextHint(action) == Truthy(action.text) /\ Len(Trim(action.text)) > 0

\* a wait that remembers its match only when it is the top candidate
WaitPathTopOnly(action, last0, pg) ==
  LET chosen == trySelectorsSimple(pg, action.selector, PerSelectorMs)
  IN IF Truthy(chosen)
     THEN Completed(IF chosen = action.selector[1] THEN chosen ELSE NULL, chosen, <<>>, "n/a")
     ELSE Thrown(last0, NULL, <<>>, "waitForSelector: no selector matched", "n/a")

\* waitForSelector (lines 376-402)
WaitPath(action, last0, pg) ==
  LET chosen == trySelectorsSimple(pg, action.selector, PerSelectorMs)
  IN IF Truthy(chosen)
     THEN Completed(chosen, chosen, <<>>, "n/a")
     ELSE Thrown(last0, NULL, <<>>, "waitForSelector: no selector matched", "n/a")

\* a click that never looks for its expected_dialog
expectsNoDialog(action) == FALSE

\* if (action.expected_dialog) (line 467)
expectsDialog(action) == Truthy(action.expected_dialog)

\* click (lines 403-472)
\* clickOk: the final page.click did not time out on an element that is there
ClickPath(action, last0, shouldUse, pg, clickOk, dialogOk) ==
  LET last1 == AfterOneShotCheck(shouldUse, last0, pg, "clickable")
      selectorsOrig == action.selector
      merged == mergedSelectors(shouldUse, last1, selectorsOrig)
      filteredCandidates ==
        filterSelectorsByCheck(pg, CandidateList(merged, selectorsOrig), "clickable")
      resolved == trySelectorsSimple(pg, CandidateList(filteredCandidates, selectorsOrig),
                                     PerSelectorMs)
      textLoc == TextLoc(action.text)
      textClicked == ~Truthy(resolved) /\ HasTextHint(action) /\ Reachable(pg, textLoc)
      chosen == IF Truthy(resolved) THEN resolved ELSE IF textClicked THEN textLoc ELSE NULL
      last2 == IF textClicked THEN textLoc ELSE last1
      last3 == IF shouldUse /\ Truthy(last2) /\ chosen = last2 THEN NULL ELSE chosen
      fx1 == IF textClicked THEN <<Effect("click", textLoc, NULL)>> ELSE <<>>
      fx2 == Append(fx1, Effect("click", chosen, NULL))
  IN IF Len(filteredCandidates) = 0
     THEN Thrown(last1, NULL, <<>>, "click: no clickable selector matched", "n/a")
     ELSE IF ~Truthy(chosen)
     THEN Thrown(last1, NULL, <<>>, "click: no selector matched", "n/a")
     ELSE IF ~(Reachable(pg, chosen) /\ clickOk)
     THEN Thrown(last3, chosen, fx1, "page.click: timeout", "n/a")
     ELSE IF expectsDialog(action)
     THEN IF dialogOk
          THEN Completed(last3, chosen, fx2, "appeared")
          ELSE Thrown(last3, chosen, fx2, "click: expected dialog did not appear after click",
                      "missing")
     ELSE Completed(last3, chosen, fx2, "n/a")

\* a fill that never retries
neverRetriesFill(action) == FALSE

\* if (action.expected_dialog) after a failed first attempt (line 512)
retriesFill(action) == Truthy(action.expected_dialog)

\* fill (lines 473-538); pg2 is the page after the wait for expected_dialog
FillPath(action, last0, shouldUse, pg, pg2) ==
  LET last1 == AfterOneShotCheck(shouldUse, last0, pg, "fillable")
      selectorsOrig == action.selector
      merged == mergedSelectors(shouldUse, last1, selectorsOrig)
      filteredFillCandidates ==
        filterSelectorsByCheck(pg, CandidateList(merged, selectorsOrig), "fillable")
      text == IF action.text = NULL THEN "" ELSE action.text
      fallbackToKeyboard == action.fallback_to_keyboard
      first == tryFillWithFallback(pg, CandidateList(filteredFillCandidates, selectorsOrig),
                                   text, fallbackToKeyboard)
      retry == trySelectorsSimple(pg2, CandidateList(merged, selectorsOrig), RetrySelectorMs)
      second == tryFillWithFallback(pg2, <<retry>>, text, fallbackToKeyboard)
      firstSelector == IF Len(selectorsOrig) > 0 /\ Truthy(selectorsOrig[1])
                       THEN selectorsOrig[1] ELSE last1
      failure == "tryFillWithFallback: failed to fill value"
  IN IF Len(filteredFillCandidates) = 0
     THEN Thrown(last1, NULL, <<>>, "fill: no fillable selector matched", "n/a")
     ELSE IF first.success
     THEN IF shouldUse /\ Truthy(last1) /\ merged[1] = last1
          THEN Completed(NULL, last1, first.effects, "n/a")
          ELSE Completed(firstSelector, firstSelector, first.effects, "n/a")
     ELSE IF retriesFill(action) /\ Truthy(retry) /\ second.success
     THEN Outcome(TRUE, IF shouldUse /\ last1 = retry THEN NULL ELSE retry, retry,
                  second.effects, NULL, FALSE, "n/a")
     ELSE Thrown(last1, NULL, <<>>, failure, "n/a")

\* the url of a goto (line 543)
GotoUrl(action) ==
  IF Truthy(action.url) THEN action.url
  ELSE IF Truthy(action.text) THEN action.text
  ELSE IF Len(action.selector) > 0 /\ Truthy(action.selector[1]) THEN action.selector[1]
  ELSE NULL

\* goto (lines 541-548)
GotoPath(action, last0, loaded) ==
  LET url == GotoUrl(action)
  IN IF ~Truthy(url)
     THEN Thrown(last0, NULL, <<>>, "goto action missing url", "n/a")
     ELSE IF ~loaded
     THEN Thrown(last0, NULL, <<>>, "page.goto: timeout", "n/a")
     ELSE Completed(NULL, url, <<Effect("goto", url, NULL)>>, "n/a")

----------------------------------------------------------------------------
(* saveCheckpoint (lines 95-151) and the files of the run *)

\* verification candidates that put the expected_dialog first
verificationCandidatesDialogFirst(action, selectorUsed) ==
  (IF Truthy(action.expected_dialog) THEN <<action.expected_dialog>> ELSE <<>>)
    \o (IF Truthy(selectorUsed) THEN <<selectorUsed>> ELSE <<>>)
    \o action.wait_for

\* verificationCandidates (lines 120-124)
verificationCandidates(action, selectorUsed) ==
  (IF Truthy(selectorUsed) THEN <<selectorUsed>> ELSE <<>>)
    \o (IF Truthy(action.expected_dialog) THEN <<action.expected_dialog>> ELSE <<>>)
    \o action.wait_for

\* waitedFor: the first verification candidate that page.waitForSelector finds
RECURSIVE waitedFor(_, _)
waitedFor(pg, candidates) ==
  IF candidates = <<>> THEN NULL
  ELSE IF Reachable(pg, Head(candidates)) THEN Head(candidates)
  ELSE waitedFor(pg, Tail(candidates))

\* a capture whose meta.json names only a selector it waited for
saveCheckpointWaitedOnly(pg, checkpointName, actionIndex, action, selectorUsed, shotOk, ckIndex, origin) ==
  [dir |-> checkpointName,
   action_index |-> actionIndex,
   action_type |-> action.type,
   selector_used |-> waitedFor(pg, verificationCandidates(action, selectorUsed)),
   shot |-> shotOk,
   ck |-> ckIndex,
   origin |-> origin]

\* the files one saveCheckpoint call writes: meta.json always, the .png if the
\* screenshot succeeded.  ckIndex and origin tell which step made the call.
saveCheckpoint(pg, checkpointName, actionIndex, action, selectorUsed, shotOk, ckIndex, origin) ==
  LET waited == waitedFor(pg, verificationCandidates(action, selectorUsed))
  IN [dir |-> checkpointName,
      action_index |-> actionIndex,
      action_type |-> action.type,
      selector_used |-> IF waited # NULL THEN waited ELSE selectorUsed,
      shot |-> shotOk,
      ck |-> ckIndex,
      origin |-> origin]

\* a screenshot error that leaves saveCheckpoint
screenshotErrorEscapes(shotOk) == ~shotOk

\* saveCheckpoint throws: never, the error of page.screenshot is caught and
\* meta.json is still written (lines 140-150)
saveCheckpointThrows(shotOk) == FALSE

\* fs.existsSync(metaPath)
MetaExists(files, dir) == \E i \in 1..Len(files) : files[i].dir = dir

\* some .png in the checkpoint directory
PngExists(files, dir) == \E i \in 1..Len(files) : files[i].dir = dir /\ files[i].shot

\* an end-of-checkpoint test that does not look at the marker
NeedsImplicitIgnoringMarker(files, marks, dir) ==
  ~MetaExists(files, dir) /\ ~PngExists(files, dir)

\* the end-of-checkpoint test (line 691)
NeedsImplicitCapture(files, marks, dir) ==
  ~MetaExists(files, dir) /\ dir \notin marks /\ ~PngExists(files, dir)

\* directory of an explicit capture (line 550)
CaptureDir(action, name) ==
  IF Truthy(action.checkpoint_name) THEN action.checkpoint_name ELSE name

----------------------------------------------------------------------------
(* Recovery (lines 561-670) *)

\* What the planner's language model sends back: the call fails (an error or
\* a timeout), the text holds no JSON, or the text holds a JSON object.  The
\* object is given by the keys that matter to callPlanner and to the
\* extractor, in key order: plan, checkpoints, a top-level array "selectors"
\* and a nested object alternatives = {selector: [...]}; keys holds the keys
\* that are present.
Response(kind, json) == [kind |-> kind, json |-> json]

Json(keys, planArray, checkpointArray, selectorArray, nestedArray) ==
  [keys |-> keys, plan |-> planArray, checkpoints |-> checkpointArray,
   selectors |-> selectorArray, alternatives |-> [selector |-> nestedArray]]

NoJson == Json({}, <<>>, <<>>, <<>>, <<>>)

\* an entry of a plan array of a response: a JSON object with the PlanAction
\* fields, or a string
ResponseAction(type, sel) ==
  [object |-> TRUE, string |-> NULL, type |-> type, selector |-> sel, text |-> NULL,
   url |-> NULL, checkpoint_name |-> NULL]
ResponseString(str) ==
  [object |-> FALSE, string |-> str, type |-> NULL, selector |-> <<>>, text |-> NULL,
   url |-> NULL, checkpoint_name |-> NULL]

AllowedTypes == {"click", "fill", "waitForSelector", "screenshot", "goto", "waitForTimeout"}

StartsWithHttp(url) == Len(url) >= 4 /\ SubSeq(url, 1, 4) = "http"

\* validateAction does not throw (planner.ts lines 52-94)
validateAction(a) ==
  /\ a.object
  /\ Truthy(a.type)
  /\ a.type \in AllowedTypes
  /\ a.type = "screenshot" => Truthy(a.checkpoint_name)
  /\ a.type = "goto" => (Truthy(a.url) /\ StartsWithHttp(a.url))
  /\ a.type = "fill" => (Truthy(a.text) /\ Len(a.selector) > 0)
  /\ a.type = "waitForSelector" => Len(a.selector) > 0

\* normalizeParsedPlanner (planner.ts lines 120-165): an object with plan or
\* checkpoints is kept; otherwise the first top-level array becomes the plan
\* and the other keys are dropped; otherwise the object is kept
normalizeParsedPlanner(parsed) ==
  IF "plan" \in parsed.keys \/ "checkpoints" \in parsed.keys THEN parsed
  ELSE IF "selectors" \in parsed.keys
  THEN Json({"plan"},
            [i \in 1..Len(parsed.selectors) |-> ResponseString(parsed.selectors[i])],
            <<>>, <<>>, <<>>)
  ELSE parsed

\* callPlanner (planner.ts lines 270-340): the normalized plan, or an exception
callPlanner(response) ==
  IF response.kind = "error" THEN [threw |-> "Planner LLM call failed", value |-> NoJson]
  ELSE IF response.kind = "text"
  THEN [threw |-> "Planner response did not contain valid JSON", value |-> NoJson]
  ELSE LET normalized == normalizeParsedPlanner(response.json)
           hasCheckpoints ==
             "checkpoints" \in normalized.keys /\ Len(normalized.checkpoints) > 0
           hasPlan == "plan" \in normalized.keys /\ Len(normalized.plan) > 0
           checkpointsValid ==
             hasCheckpoints =>
               \A c \in 1..Len(normalized.checkpoints) :
                 /\ Truthy(normalized.checkpoints[c].name)
                 /\ \A i \in 1..Len(normalized.checkpoints[c].action_sequence) :
                      validateAction(normalized.checkpoints[c].action_sequence[i])
           planValid ==
             hasPlan => \A i \in 1..Len(normalized.plan) : validateAction(normalized.plan[i])
       IN IF ~hasCheckpoints /\ ~hasPlan
          THEN [threw |-> "Planner response missing 'checkpoints' or 'plan' array",
                value |-> NoJson]
          ELSE IF ~(checkpointsValid /\ planValid)
          THEN [threw |-> "Failed to parse/validate planner JSON", value |-> NoJson]
          ELSE [threw |-> NULL, value |-> normalized]

\* the arrays under selector-like keys of the entries of a plan array
RECURSIVE ArraysOfPlan(_)
ArraysOfPlan(items) ==
  IF items = <<>> THEN <<>>
  ELSE (IF Head(items).object THEN <<Head(items).selector>> ELSE <<>>)
         \o ArraysOfPlan(Tail(items))

RECURSIVE ArraysOfCheckpoints(_)
ArraysOfCheckpoints(cps) ==
  IF cps = <<>> THEN <<>>
  ELSE ArraysOfPlan(Head(cps).action_sequence) \o ArraysOfCheckpoints(Tail(cps))

\* the walk of collectFrom (lines 289-303) over a JSON object: every array
\* found under the keys selector / selector_candidates / selectors at any
\* depth, in key order
SelectorArrays(json) ==
  (IF "plan" \in json.keys THEN ArraysOfPlan(json.plan) ELSE <<>>)
    \o (IF "checkpoints" \in json.keys THEN ArraysOfCheckpoints(json.checkpoints) ELSE <<>>)
    \o (IF "selectors" \in json.keys THEN <<json.selectors>> ELSE <<>>)
    \o (IF "alternatives" \in json.keys THEN <<json.alternatives.selector>> ELSE <<>>)

\* the strings collectFrom pushes: the non-blank strings of the arrays (line 297)
RECURSIVE collectFrom(_)
collectFrom(arrays) ==
  IF arrays = <<>> THEN <<>>
  ELSE SelectSeq(Head(arrays), LAMBDA x : x # NULL /\ Len(Trim(x)) > 0)
         \o collectFrom(Tail(arrays))

TrimAll(q) == [i \in 1..Len(q) |-> Trim(q[i])]

\* line 307: unique, then trimmed, then the first dozen
uniq(selectors) ==
  Slice(SelectSeq(TrimAll(Uniq(selectors)), LAMBDA x : Len(x) > 0), MaxRecoverySelectors)

\* a recovery request whose planner error is not caught
askPlannerUncaught(response) ==
  LET plannerOut == callPlanner(response)
  IN IF plannerOut.threw # NULL
     THEN [threw |-> plannerOut.threw, selectors |-> <<>>]
     ELSE [threw |-> NULL, selectors |-> uniq(collectFrom(SelectorArrays(plannerOut.value)))]

\* askPlannerForRecovery (lines 276-313): any exception of callPlanner is
\* caught and gives null; the null result is the empty list
askPlannerForRecovery(response) ==
  LET plannerOut == callPlanner(response)
  IN IF plannerOut.threw # NULL
     THEN [threw |-> NULL, selectors |-> <<>>]
     ELSE [threw |-> NULL, selectors |-> uniq(collectFrom(SelectorArrays(plannerOut.value)))]

\* a recovery that filters no candidate
RecoveryCheckNone(action) == NULL

\* the check applied to recovery candidates (lines 577-579)
RecoveryCheck(action) ==
  CASE action.type = "click" -> "clickable"
    [] action.type = "fill"  -> "fillable"
    [] OTHER                 -> NULL

\* the selectors the filter of the recovery candidates looks up on the page:
\* none for an action type without a check (lines 577-579)
FilterQueries(action, recoverySelectors) ==
  IF RecoveryCheck(action) = NULL THEN {} ELSE SeqToSet(recoverySelectors)

filteredRecoveryCandidates(action, pg, recoverySelectors) ==
  IF RecoveryCheck(action) = NULL THEN recoverySelectors
  ELSE filterSelectorsByCheck(pg, recoverySelectors, RecoveryCheck(action))

\* score of a candidate in the sort (lines 589-593): it mentions the text hint
MentionsText(s, textHint) ==
  LET low == ToLower(s)
  IN Includes(low, ":has-text(\"" \o textHint \o "\")") \/ Includes(low, textHint)

\* candidates that are tried in the order of the response
orderedCandidatesUnsorted(action, filtered) == filtered

\* orderedCandidates (lines 585-596): a stable sort by the score
orderedCandidates(action, filtered) ==
  LET textHint == IF Truthy(action.text) THEN ToLower(Trim(action.text)) ELSE NULL
  IN IF Truthy(textHint)
     THEN SelectSeq(filtered, LAMBDA s : MentionsText(s, textHint))
            \o SelectSeq(filtered, LAMBDA s : ~MentionsText(s, textHint))
     ELSE filtered

\* an acceptance test that looks at the side effect only
TrialAcceptsEffect(action, performed, dialogOk) == performed

\* a trial accepts its candidate: the side effect was performed and, where
\* the action declares an expected_dialog, the dialog appeared
TrialAccepts(action, performed, dialogOk) ==
  performed /\ (Truthy(action.expected_dialog) => dialogOk)

TrialResult(recovered, effects, dlgSeen) ==
  [recovered |-> recovered, effects |-> effects, dlg |-> dlgSeen]

\* one iteration of the loop over orderedCandidates (lines 599-649)
TrialPath(action, candidate, pg, dialogOk) ==
  LET text == IF action.text = NULL THEN "" ELSE action.text
      filled == tryFillWithFallback(pg, <<candidate>>, text, action.fallback_to_keyboard)
      seen == IF Truthy(action.expected_dialog)
              THEN IF dialogOk THEN "appeared" ELSE "missing"
              ELSE "n/a"
  IN CASE action.type = "click" ->
            IF ~Reachable(pg, candidate) THEN TrialResult(FALSE, <<>>, "n/a")
            ELSE TrialResult(TrialAccepts(action, TRUE, dialogOk),
                             <<Effect("click", candidate, NULL)>>, seen)
       [] action.type = "fill" ->
            IF ~filled.success THEN TrialResult(FALSE, <<>>, "n/a")
            ELSE TrialResult(TrialAccepts(action, TRUE, dialogOk), filled.effects, seen)
       [] action.type = "waitForSelector" ->
            TrialResult(Reachable(pg, candidate), <<>>, "n/a")
       [] OTHER ->
            IF ~Reachable(pg, candidate) THEN TrialResult(FALSE, <<>>, "n/a")
            ELSE TrialResult(TRUE, <<Effect("click", candidate, NULL)>>, "n/a")

\* a failure document that counts the actions from one
FailureDocOneBased(name, actionIndex, action, error) ==
  [checkpoint |-> name, action_index |-> actionIndex + 1, action |-> action, error |-> error]

\* the failure.json document (lines 657-665)
FailureDoc(name, actionIndex, action, error) ==
  [checkpoint |-> name, action_index |-> actionIndex, action |-> action, error |-> error]

----------------------------------------------------------------------------
(* What the environment may answer *)

\* longest selector list in one planner reply
MaxReplySelectors == 2

\* longest selector list in a reply of another shape than a "plan" array
MaxOtherSelectors == 1

Elem(kind, from, detaches) == [kind |-> kind, from |-> from, detaches |-> detaches]

\* elements as a waitForSelector meets them: there at once, after 500 ms, or
\* only after the first candidate's budget has run out
WaitStates == {Absent, Elem("div", 0, FALSE), Elem("div", 500, FALSE), Elem("div", 1500, FALSE)}

\* elements as a click meets them
ClickStates == {Absent, Elem("div", 0, FALSE), Elem("button", 0, FALSE), Elem("button", 0, TRUE)}

\* elements as a fill meets them
FillStates == {Absent, Elem("div", 0, FALSE), Elem("input", 0, FALSE), Elem("input", 0, TRUE),
               Elem("textbox", 0, FALSE)}

\* elements as the fill retry, a capture, the recovery filter or a trial meets them
LaterStates == {Absent, Elem("div", 0, FALSE), Elem("input", 0, FALSE)}
FilterStates == {Absent, Elem("button", 0, FALSE), Elem("input", 0, FALSE)}
ShotStates == {Absent, Elem("div", 0, FALSE)}

Pages(selectors, states) == [selectors -> states]

\* selectors a planner reply may offer
ReplySelectors == {C, "text=New"}

SeqsUpTo(S, n) == UNION {[1..k -> S] : k \in 0..n}

\* shapes of a JSON response that offers the selectors q
PlanReply(q) == Response("json", Json({"plan"}, <<ResponseAction("click", q)>>, <<>>, <<>>, <<>>))
CheckpointsReply(q) ==
  Response("json", Json({"checkpoints"}, <<>>,
                        <<Checkpoint("recovery", <<ResponseAction("click", q)>>)>>, <<>>, <<>>))
UntypedReply(q) == Response("json", Json({"plan"}, <<ResponseAction(NULL, q)>>, <<>>, <<>>, <<>>))
BareReply(q) == Response("json", Json({"selectors"}, <<>>, <<>>, q, <<>>))
NestedReply(q) == Response("json", Json({"alternatives"}, <<>>, <<>>, <<>>, q))

\* the replies: a failed call, a text without JSON, the shape the recovery
\* request asks for with every selector list, and the other shapes with short
\* lists
PlannerReplies ==
  {Response("error", NoJson), Response("text", NoJson)}
    \cup {PlanReply(q) : q \in SeqsUpTo(ReplySelectors, MaxReplySelectors)}
    \cup UNION {{CheckpointsReply(q), UntypedReply(q), BareReply(q), NestedReply(q)} :
                  q \in SeqsUpTo(ReplySelectors, MaxOtherSelectors)}

\* the recovery request and what came back: the DOM snapshot was taken or is
\* null (lines 567-571), and the planner's response
Answer(snapshotTaken, response) == [snapshot |-> snapshotTaken, response |-> response]
NoAnswer == Answer(FALSE, Response("none", NoJson))

----------------------------------------------------------------------------
(* executeCheckpointedPlan *)

NoRes == [ck |-> -1, ai |-> -1, type |-> NULL, ok |-> FALSE, chosen |-> NULL,
          remembered |-> NULL, oneShot |-> FALSE, page |-> NoPage, page2 |-> NoPage,
          effects |-> <<>>]

\* the .screenshot_saved markers found when the run starts: none, or, for the
\* plans that are run a second time over the same storage area, those a
\* completed earlier run left (line 695)
PriorMarkers(p) ==
  IF p \in Reruns
  THEN {{}, {CheckpointName(p[c]) : c \in 1..Len(p)}}
  ELSE {{}}

Init ==
  /\ plan \in Plans
  /\ pc = "start"
  /\ ck = 0
  /\ ai = 0
  /\ lastSelectorUsed = NULL
  /\ page = NoPage
  /\ res = NoRes
  /\ dlg = "n/a"
  /\ cands = <<>>
  /\ err = NULL
  /\ fx = <<>>
  /\ log = <<>>
  /\ trials = <<>>
  /\ started = <<>>
  /\ thrown = <<>>
  /\ finished = <<>>
  /\ requests = <<>>
  /\ saved = <<>>
  /\ markers \in PriorMarkers(plan)
  /\ failures = <<>>
  /\ answer = NoAnswer
  /\ result = NULL

\* the current checkpoint, its name and its actions (lines 351-354)
checkpoint == plan[ck + 1]
name == CheckpointName(checkpoint)
actions == checkpoint.action_sequence
InActions == pc = "action" /\ ck < Len(plan) /\ ai < Len(actions)
action == actions[ai + 1]

\* a loop that does not advance after an action completed
SameAction(i) == i

\* ++ai after an action completed (line 361)
NextAction(i) == i + 1

\* a recovered action that is run again by the normal path
RetryAfterRecovery(i) == i

\* ++ai after an action was recovered: the action is not run again (lines 667-671)
NextAfterRecovery(i) == i + 1

\* a failure that is recorded without stopping the run
ContinueAfterFailure == "action"

\* where the run goes when recovery accepted no candidate: the throw of line 666
AfterFailure == "aborted"

\* a catch block that asks the planner a second time
AfterRequestAndRetry(reqs, c, i) == Append(Append(reqs, <<c, i>>), <<c, i>>)

\* the recovery requests after the single callPlanner of the catch block (line 572)
AfterRequest(reqs, c, i) == Append(reqs, <<c, i>>)

\* the completion log entry (lines 556-560)
LogEntry(i, act, ckName, chosen, last) ==
  [actionIndex |-> i, type |-> act.type, checkpoint |-> ckName, used |-> chosen,
   remembered |-> IF Truthy(chosen) THEN NULL ELSE last]

\* (line 348)
Start ==
  /\ pc = "start"
  /\ IF Len(plan) = 0
     THEN pc' = "rejected" /\ result' = [threw |-> "No checkpoints in plan"]
     ELSE pc' = "action" /\ result' = result
  /\ UNCHANGED <<plan, ck, ai, lastSelectorUsed, page, res, dlg, cands, err, fx, log,
                 trials, started, thrown, finished, requests, saved, markers, failures,
                 answer>>

\* if (!action) continue (lines 363-366)
SkipUndefined ==
  /\ InActions
  /\ action.type = NULL
  /\ ai' = ai + 1
  /\ UNCHANGED <<plan, pc, ck, lastSelectorUsed, page, res, dlg, cands, err, fx, log,
                 trials, started, thrown, finished, requests, saved, markers, failures,
                 answer, result>>

\* the end of the try block or the entry into the catch block, for an outcome
\* of the action's path
Settle(outcome, pg, pg2, shouldUse, files) ==
  /\ page' = pg
  /\ \E out \in {outcome} :
       /\ started' = Append(started, <<ck, ai>>)
       /\ lastSelectorUsed' = out.last
       /\ fx' = out.effects
       /\ dlg' = out.dlg
       /\ saved' = files
       /\ res' = [ck |-> ck, ai |-> ai, type |-> action.type, ok |-> out.ok, chosen |-> out.chosen,
                  remembered |-> lastSelectorUsed, oneShot |-> shouldUse, page |-> pg,
                  page2 |-> pg2, effects |-> out.effects]
       /\ IF out.ok
          THEN /\ pc' = "action"
               /\ ai' = NextAction(ai)
               /\ finished' = Append(finished, <<ck, ai>>)
               /\ log' = IF out.logged
                         THEN Append(log, LogEntry(ai, action, name, out.chosen, out.last))
                         ELSE log
               /\ thrown' = thrown
               /\ err' = NULL
          ELSE /\ pc' = "recover"
               /\ ai' = ai
               /\ finished' = finished
               /\ log' = log
               /\ thrown' = Append(thrown, <<ck, ai>>)
               /\ err' = out.error
       /\ trials' = <<>>
       /\ answer' = NoAnswer
       /\ UNCHANGED <<plan, ck, cands, requests, markers, failures, result>>

DoWaitForSelector ==
  /\ InActions
  /\ action.type = "waitForSelector"
  /\ \E pg \in Pages(SeqToSet(action.selector), WaitStates) :
       Settle(WaitPath(action, lastSelectorUsed, pg), pg, NoPage, FALSE, saved)

DoClick ==
  /\ InActions
  /\ action.type = "click"
  /\ LET shouldUse == shouldUseLastSelectorOneShot(actions, ai, lastSelectorUsed)
         queried == SeqToSet(mergedSelectors(shouldUse, lastSelectorUsed, action.selector))
                      \cup (IF Truthy(action.text) THEN {TextLoc(action.text)} ELSE {})
     IN \E pg \in Pages(queried, ClickStates), clickOk \in BOOLEAN, dialogOk \in BOOLEAN :
          Settle(ClickPath(action, lastSelectorUsed, shouldUse, pg, clickOk, dialogOk),
                 pg, NoPage, shouldUse, saved)

\* if (!success) (line 510): the first tryFillWithFallback entered no text,
\* so the fill ended by the retry's continue or by the throw of line 526
FirstFillFailed(out) ==
  \/ out.ok /\ ~out.logged
  \/ out.error = "tryFillWithFallback: failed to fill value"

DoFill ==
  /\ InActions
  /\ action.type = "fill"
  /\ LET shouldUse == shouldUseLastSelectorOneShot(actions, ai, lastSelectorUsed)
         queried == SeqToSet(mergedSelectors(shouldUse, lastSelectorUsed, action.selector))
     IN \E pg \in Pages(queried, FillStates), pg2 \in Pages(queried, LaterStates) :
          LET out == FillPath(action, lastSelectorUsed, shouldUse, pg, pg2)
          IN Settle(out, pg,
                    IF Truthy(action.expected_dialog) /\ FirstFillFailed(out)
                    THEN pg2 ELSE NoPage,
                    shouldUse, saved)

DoWaitForTimeout ==
  /\ InActions
  /\ action.type = "waitForTimeout"
  /\ Settle(Completed(lastSelectorUsed, NULL, <<>>, "n/a"), NoPage, NoPage, FALSE, saved)

DoGoto ==
  /\ InActions
  /\ action.type = "goto"
  /\ \E loaded \in BOOLEAN :
       Settle(GotoPath(action, lastSelectorUsed, loaded), NoPage, NoPage, FALSE, saved)

DoScreenshot ==
  /\ InActions
  /\ action.type = "screenshot"
  /\ \E pg \in Pages(SeqToSet(verificationCandidates(action, lastSelectorUsed)), ShotStates),
        shotOk \in BOOLEAN :
       IF saveCheckpointThrows(shotOk)
       THEN Settle(Thrown(lastSelectorUsed, NULL, <<>>, "page.screenshot failed", "n/a"),
                   pg, NoPage, FALSE, saved)
       ELSE Settle(Completed(lastSelectorUsed, NULL, <<>>, "n/a"), pg, NoPage, FALSE,
                   Append(saved, saveCheckpoint(pg, CaptureDir(action, name), ai, action,
                                                lastSelectorUsed, shotOk, ck, "action")))

\* console.warn("Unknown action type") (lines 551-553)
DoUnknown ==
  /\ InActions
  /\ action.type \notin {NULL, "waitForSelector", "click", "fill", "waitForTimeout", "goto",
                         "screenshot"}
  /\ Settle(Completed(lastSelectorUsed, NULL, <<>>, "n/a"), NoPage, NoPage, FALSE, saved)

\* the catch block up to the loop over the candidates (lines 561-596): the
\* settle delay, the DOM snapshot, the one planner request, the filter, the sort
Recover ==
  /\ pc = "recover"
  /\ \E snapshotTaken \in BOOLEAN, response \in PlannerReplies :
       LET asked == askPlannerForRecovery(response)
           recoverySelectors == asked.selectors
       IN /\ requests' = AfterRequest(requests, ck, ai)
          /\ answer' = Answer(snapshotTaken, response)
          /\ IF asked.threw # NULL
             THEN /\ pc' = "crashed"
                  /\ result' = [threw |-> asked.threw]
                  /\ UNCHANGED <<cands, page>>
             ELSE /\ \E pg \in Pages(FilterQueries(action, recoverySelectors), FilterStates) :
                       /\ page' = pg
                       /\ cands' = orderedCandidates(action,
                                      filteredRecoveryCandidates(action, pg, recoverySelectors))
                  /\ pc' = "trial"
                  /\ result' = result
  /\ trials' = <<>>
  /\ res' = [res EXCEPT !.page2 = NoPage]
  /\ UNCHANGED <<plan, ck, ai, lastSelectorUsed, dlg, err, fx, log, started, thrown,
                 finished, saved, markers, failures>>

\* a recovery that leaves Selector Memory as it was
KeepAfterRecovery(candidate, last) == last

\* lastSelectorUsed = candidate after an accepted trial (lines 612, 628, 631, 638)
RememberRecovered(candidate, last) == candidate

\* one iteration of the loop over orderedCandidates (lines 599-649)
Trial ==
  /\ pc = "trial"
  /\ cands # <<>>
  /\ LET candidate == Head(cands)
     IN \E pg \in Pages({candidate}, LaterStates), dialogOk \in BOOLEAN :
          LET t == TrialPath(action, candidate, pg, dialogOk)
          IN /\ page' = pg
             /\ dlg' = t.dlg
             /\ fx' = fx \o t.effects
             /\ trials' = Append(trials, [candidate |-> candidate, effects |-> t.effects,
                                        dlg |-> t.dlg, accepted |-> t.recovered])
             /\ IF t.recovered
                THEN /\ lastSelectorUsed' = RememberRecovered(candidate, lastSelectorUsed)
                     /\ cands' = <<>>
                     /\ finished' = Append(finished, <<ck, ai>>)
                     /\ ai' = NextAfterRecovery(ai)
                     /\ pc' = "action"
                     /\ err' = NULL
                ELSE /\ cands' = Tail(cands)
                     /\ UNCHANGED <<lastSelectorUsed, finished, ai, pc, err>>
  /\ answer' = NoAnswer
  /\ UNCHANGED <<plan, ck, res, log, started, thrown, requests, saved, markers, failures,
                 result>>

\* if (!recovered): failure.json and the throw (lines 653-666)
Abort ==
  /\ pc = "trial"
  /\ cands = <<>>
  /\ failures' = Append(failures, FailureDoc(name, ai, action, err))
  /\ result' = [threw |-> "Executor aborted: unrecoverable action", checkpoint |-> name,
                actionIndex |-> ai, error |-> err]
  /\ pc' = AfterFailure
  /\ answer' = NoAnswer
  /\ UNCHANGED <<plan, ck, ai, lastSelectorUsed, page, res, dlg, cands, err, fx, log, trials,
                 started, thrown, finished, requests, saved, markers>>

\* the last action of a checkpoint, or {} when it has none (line 692)
lastAction == IF Len(actions) > 0 THEN actions[Len(actions)] ELSE Undefined

\* Math.max(0, actions.length - 1) (line 693)
lastIndex == IF Len(actions) - 1 > 0 THEN Len(actions) - 1 ELSE 0

\* a checkpoint that starts with the memory of the one before
CarriedSelectorMemory(last) == last

\* let lastSelectorUsed = null at the start of every checkpoint (line 359)
FreshSelectorMemory(last) == NULL

\* a loop over the checkpoints that stops one short
CheckpointsDoneEarly(c, n) == c >= n - 1

\* the checkpoints loop is over: ck < checkpoints.length fails (line 350)
CheckpointsDone(c, n) == c >= n

\* opts.taskId || checkpointedPlan.task_id || "task" (line 341); the plans
\* of the model carry no task_id and no option is given
taskId == "task"

\* end of a checkpoint: the implicit capture (lines 683-699), then ++ck with a
\* fresh lastSelectorUsed (lines 350, 359).  The capture is outside any try
\* block: an exception of saveCheckpoint would leave executeCheckpointedPlan.
CheckpointEnd ==
  /\ pc = "action"
  /\ ck < Len(plan)
  /\ ai >= Len(actions)
  /\ IF NeedsImplicitCapture(saved, markers, name)
     THEN \E pg \in Pages(SeqToSet(verificationCandidates(lastAction, lastSelectorUsed)),
                          ShotStates),
             shotOk \in BOOLEAN :
            /\ page' = pg
            /\ IF saveCheckpointThrows(shotOk)
               THEN /\ pc' = "crashed"
                    /\ result' = [threw |-> "page.screenshot failed"]
                    /\ UNCHANGED <<saved, markers, ck, ai, lastSelectorUsed>>
               ELSE /\ saved' = Append(saved, saveCheckpoint(pg, name, lastIndex, lastAction,
                                                             lastSelectorUsed, shotOk, ck,
                                                             "implicit"))
                    /\ markers' = markers \cup {name}
                    /\ ck' = ck + 1
                    /\ ai' = 0
                    /\ lastSelectorUsed' = FreshSelectorMemory(lastSelectorUsed)
                    /\ UNCHANGED <<pc, result>>
     ELSE /\ ck' = ck + 1
          /\ ai' = 0
          /\ lastSelectorUsed' = FreshSelectorMemory(lastSelectorUsed)
          /\ UNCHANGED <<saved, markers, page, pc, result>>
  /\ UNCHANGED <<plan, res, dlg, cands, err, fx, log, trials, started, thrown, finished,
                 requests, failures, answer>>

\* the return after the checkpoints loop (line 703)
Return ==
  /\ pc = "action"
  /\ CheckpointsDone(ck, Len(plan))
  /\ pc' = "done"
  /\ result' = [status |-> "success", task_id |-> taskId, checkpoints_executed |-> Len(plan)]
  /\ UNCHANGED <<plan, ck, ai, lastSelectorUsed, page, res, dlg, cands, err, fx, log,
                 trials, started, thrown, finished, requests, saved, markers, failures,
                 answer>>

Next ==
  \/ Start
  \/ SkipUndefined
  \/ DoWaitForSelector
  \/ DoClick
  \/ DoFill
  \/ DoWaitForTimeout
  \/ DoGoto
  \/ DoScreenshot
  \/ DoUnknown
  \/ Recover
  \/ Trial
  \/ Abort
  \/ CheckpointEnd
  \/ Return

Spec == Init /\ [][Next]_vars

\* the plans of the runs whose termination is checked: every kind of action,
\* the recovery, the abort, the implicit capture and the second run
LivePlans ==
  { <<>>,
    <<CkOdd, CkOneShot>>,
    <<CkOneShot, CkOwnDir>>,
    <<CkKeys, CkEmpty>>,
    <<CkChain>>,
    <<CkGo>> }

InitLive == Init /\ plan \in LivePlans

\* executeCheckpointedPlan is one async function that nothing suspends: every
\* await settles (a page wait by its timeout, the planner call by its return
\* or throw), so the run takes its next step until it returns or throws
FairSpec == InitLive /\ [][Next]_vars /\ WF_vars(Next)

----------------------------------------------------------------------------
(* Properties *)

\* plan order of two positions <<checkpoint index, action index>>
Before(x, y) == x[1] < y[1] \/ (x[1] = y[1] /\ x[2] < y[2])

ActionAt(p) == plan[p[1] + 1].action_sequence[p[2] + 1]

\* the positions of the plan that hold an action
Positions ==
  UNION {{<<c, i>> : i \in {j \in 0..(Len(plan[c + 1].action_sequence) - 1) :
                              plan[c + 1].action_sequence[j + 1].type # NULL}} :
         c \in 0..(Len(plan) - 1)}

\* selectors clicked by the direct path recorded in res
ResClicks == {res.effects[k].target : k \in {j \in 1..Len(res.effects) : res.effects[j].op = "click"}}

\* the element stays in the DOM after the interactivity checks
Stays(pg, s) == ~El(pg, s).detaches

\* C1: actions start in plan order, each only after every earlier action of
\* the plan has finished (completed or recovered); no action starts twice and
\* the completions follow the same order.
C1_Ordering ==
  /\ \A m, n \in 1..Len(started) : m < n => Before(started[m], started[n])
  /\ \A n \in 1..Len(started) : \A p \in Positions :
       Before(p, started[n]) => InSeq(p, finished)
  /\ \A m, n \in 1..Len(finished) : m < n => Before(finished[m], finished[n])

\* an action of the second checkpoint started after an action of the first
\* checkpoint had failed and been recovered
C1_Witness ==
  /\ Len(started) > 0 /\ started[Len(started)][1] = 1
  /\ Len(thrown) > 0 /\ thrown[1][1] = 0
  /\ InSeq(thrown[1], finished)

\* C2: once an action aborts the run is terminal: one failure document, for
\* the action that was running; nothing is started, done to the page or
\* captured afterwards.
C2_AbortTerminal ==
  /\ [](Len(failures) > 0 =>
          /\ pc = "aborted"
          /\ Len(failures) = 1
          /\ started[Len(started)] = <<ck, ai>>
          /\ ~InSeq(<<ck, ai>>, finished))
  /\ [](pc = "aborted" => Len(failures) = 1)
  /\ [][pc = "aborted" =>
          /\ pc' = "aborted"
          /\ started' = started
          /\ finished' = finished
          /\ fx' = fx
          /\ saved' = saved
          /\ markers' = markers
          /\ failures' = failures]_vars

\* the run aborted in a checkpoint that has later actions and is followed by
\* another checkpoint
C2_Witness ==
  /\ pc = "aborted"
  /\ ck + 1 < Len(plan)
  /\ ai + 1 < Len(actions)

\* the step is a recovery trial whose side effect was performed and whose
\* expected follow-on element did not appear
RejectedByDialog ==
  /\ pc = "trial"
  /\ Len(trials') = Len(trials) + 1
  /\ Truthy(action.expected_dialog)
  /\ trials'[Len(trials')].effects # <<>>
  /\ trials'[Len(trials')].dlg = "missing"

\* C3: a recovery candidate whose side effect was performed but whose
\* follow-on element did not appear is not accepted: the action is not
\* finished by it, Selector Memory is not set, the loop goes on with the next
\* candidate; an abort records the index of the action that failed.
C3_RecoveryAcceptance ==
  /\ [][RejectedByDialog =>
          /\ trials'[Len(trials')].candidate = Head(cands)
          /\ ~trials'[Len(trials')].accepted
          /\ cands' = Tail(cands)
          /\ pc' = "trial"
          /\ ai' = ai
          /\ finished' = finished
          /\ lastSelectorUsed' = lastSelectorUsed
          /\ failures' = failures]_vars
  /\ [](pc = "aborted" =>
          /\ failures[1].action_index = thrown[Len(thrown)][2]
          /\ failures[1].checkpoint = CheckpointName(plan[thrown[Len(thrown)][1] + 1])
          /\ failures[1].action = ActionAt(thrown[Len(thrown)]))

\* every one of two candidates performed its side effect without the
\* follow-on element appearing, and the run aborted
C3_Witness ==
  /\ pc = "aborted"
  /\ Len(trials) = 2
  /\ \A k \in 1..Len(trials) : trials[k].effects # <<>> /\ trials[k].dlg = "missing"

\* C4: a checkpoint that performed an explicit capture gets no implicit
\* capture at its end.
C4_NoImplicitAfterExplicit ==
  \A m, n \in 1..Len(saved) :
    (saved[m].origin = "action" /\ saved[n].origin = "implicit") => saved[m].ck # saved[n].ck

\* C5: screenshot and metadata are written at most once per checkpoint or
\* capture name.
C5_WriteOncePerName ==
  \A m, n \in 1..Len(saved) : m < n => saved[m].dir # saved[n].dir

\* C6: a click that follows a wait uses the remembered selector if it is
\* clickable, whatever the click declares; if it is not clickable the
\* remembered selector is dropped and the click goes to its declared candidate.
C6_OneShotMemory ==
  (res.type = "click" /\ res.oneShot) =>
    LET declared == ActionAt(<<res.ck, res.ai>>).selector
        remembered == res.remembered
    IN /\ (isSelectorClickable(res.page, remembered) /\ Stays(res.page, remembered)) =>
            /\ res.chosen = remembered
            /\ ResClicks \subseteq {remembered}
            /\ res.ok => ResClicks = {remembered}
       /\ ~isSelectorClickable(res.page, remembered) =>
            /\ ~InSeq(remembered, declared) => (res.chosen # remembered /\ remembered \notin ResClicks)
            /\ (/\ Len(declared) > 0
                /\ isSelectorClickable(res.page, declared[1])
                /\ Stays(res.page, declared[1])) =>
                 /\ res.chosen = declared[1]
                 /\ ResClicks \subseteq {declared[1]}
                 /\ res.ok => ResClicks = {declared[1]}

\* the remembered selector and the declared one were both clickable and the
\* click went to the remembered one
C6_Witness ==
  /\ res.type = "click" /\ res.oneShot /\ res.ok
  /\ res.remembered = A
  /\ ActionAt(<<res.ck, res.ai>>).selector = <<C>>
  /\ isSelectorClickable(res.page, A) /\ isSelectorClickable(res.page, C)
  /\ ResClicks = {A}

\* candidate k of a resolution appears before the end of its own budget,
\* the budgets running one after the other
InOwnBudget(pg, selectors, k) ==
  LET e == El(pg, selectors[k])
  IN e.kind # "none" /\ ~e.detaches /\ e.from < k * PerSelectorMs

\* C7: resolution is first-candidate-wins: a wait returns the earliest
\* candidate that shows up within its own budget, none only if no candidate
\* does; a click whose candidates are all clickable and present clicks the first.
C7_FirstCandidateWins ==
  /\ res.type = "waitForSelector" =>
       LET selectors == ActionAt(<<res.ck, res.ai>>).selector
           hits == {k \in 1..Len(selectors) : InOwnBudget(res.page, selectors, k)}
       IN IF hits = {}
          THEN res.chosen = NULL /\ ~res.ok
          ELSE res.ok /\ res.chosen = selectors[CHOOSE k \in hits : \A j \in hits : k <= j]
  /\ (res.type = "click" /\ ~res.oneShot) =>
       LET selectors == ActionAt(<<res.ck, res.ai>>).selector
       IN (/\ Len(selectors) > 0
           /\ \A k \in 1..Len(selectors) :
                isSelectorClickable(res.page, selectors[k]) /\ Stays(res.page, selectors[k])) =>
            /\ res.chosen = selectors[1]
            /\ ResClicks \subseteq {selectors[1]}
            /\ res.ok => ResClicks = {selectors[1]}

\* the first candidate of a wait won although the second appeared sooner
C7_Witness ==
  /\ res.type = "waitForSelector"
  /\ ActionAt(<<res.ck, res.ai>>).selector = <<A, B>>
  /\ El(res.page, A).from = 500 /\ El(res.page, A).kind # "none"
  /\ El(res.page, B).from = 0 /\ El(res.page, B).kind # "none"
  /\ res.chosen = A

\* C8: a fill with no candidate and the keyboard fallback ends only after
\* its text was typed as keystrokes into the focused element.
C8_KeyboardFallback ==
  Len(started) > 0 =>
    LET latest == started[Len(started)]
        act == ActionAt(latest)
    IN (/\ act.type = "fill"
        /\ Len(act.selector) = 0
        /\ act.fallback_to_keyboard
        /\ (InSeq(latest, finished) \/ pc = "aborted")) =>
         \E k \in 1..Len(fx) : fx[k].op = "keys" /\ fx[k].text = act.text

\* C9: the end-to-end plan, with no action failing, returns success with two
\* checkpoints executed and leaves exactly the records dialog_open and filled.
C9_EndToEnd ==
  (plan = PlanE2E /\ pc = "done" /\ thrown = <<>>) =>
    /\ result.status = "success"
    /\ result.checkpoints_executed = 2
    /\ {saved[k].dir : k \in 1..Len(saved)} = {"dialog_open", "filled"}
    /\ Len(saved) = 2

\* C10: every action whose try block threw got exactly one recovery request
\* (once the catch block has made it); no other action got one.
C10_OneRecoveryRequest ==
  /\ \A m, n \in 1..Len(thrown) : m < n => thrown[m] # thrown[n]
  /\ \A p \in Positions :
       Count(requests, p) =
         (IF InSeq(p, thrown) /\ ~(pc = "recover" /\ p = <<ck, ai>>) THEN 1 ELSE 0)

\* two actions failed, the trials of the second one threw or were rejected,
\* and each action got its one request
C10_Witness ==
  /\ Len(thrown) = 2
  /\ Len(requests) = 2
  /\ Len(trials) = 2
  /\ \A k \in 1..Len(trials) : ~trials[k].accepted
  /\ \E k \in 1..Len(trials) : trials[k].effects = <<>>

\* the step is a recovery trial that accepts its candidate
AcceptingTrial ==
  /\ pc = "trial"
  /\ Len(trials') = Len(trials) + 1
  /\ trials'[Len(trials')].accepted

\* C11: the first trial that succeeds ends the recovery: no candidate is left
\* to try, Selector Memory is the accepted candidate, the failing action counts
\* as finished and is not started again, and the run goes on at the following
\* index of the same checkpoint.
C11_RecoveredResumes ==
  /\ [][AcceptingTrial =>
          /\ trials'[Len(trials')].candidate = Head(cands)
          /\ \A k \in 1..Len(trials) : ~trials[k].accepted
          /\ cands' = <<>>
          /\ lastSelectorUsed' = Head(cands)
          /\ pc' = "action"
          /\ ck' = ck
          /\ ai' = ai + 1
          /\ finished' = Append(finished, <<ck, ai>>)
          /\ started' = started]_vars
  /\ [](pc = "action" => cands = <<>>)
  /\ [](\A m, n \in 1..Len(started) : m < n => started[m] # started[n])
  /\ [][started' # started => started' = Append(started, <<ck, ai>>)]_vars

\* the second candidate of a recovery was accepted after the first was not,
\* and the checkpoint has a further action
C11_Witness ==
  /\ pc = "action"
  /\ Len(trials) = 2
  /\ ~trials[1].accepted /\ trials[2].accepted
  /\ lastSelectorUsed = trials[2].candidate
  /\ ai < Len(actions)
  /\ finished[Len(finished)] = <<ck, ai - 1>>

\* the recovery request failed: the planner call threw or timed out, or its
\* text held nothing parseable
RequestFailed == answer.response.kind \in {"error", "text"}

\* the recovery request has just been answered
Answered == pc = "trial" /\ answer # NoAnswer

\* C12 as stated: a recovery whose request failed, or whose page snapshot
\* could not be taken, has no candidates to try.
C12_FailedRequestOrSnapshot ==
  (Answered /\ (RequestFailed \/ ~answer.snapshot)) => cands = <<>>

\* C12, amended: a recovery whose request threw, timed out or returned nothing
\* parseable has no candidates: no trial is made, the failure record of the
\* failing action is written and the run aborts with the abort error, never
\* with the planner's error.  A snapshot that could not be taken does not
\* stop the request.
C12_FailedRequestAborts ==
  /\ [][pc = "recover" => (pc' = "trial" /\ result' = result /\ failures' = failures)]_vars
  /\ []((Answered /\ RequestFailed) => (cands = <<>> /\ trials = <<>>))
  /\ [][(Answered /\ RequestFailed) =>
          /\ pc' = "aborted"
          /\ trials' = <<>>
          /\ thrown[Len(thrown)] = <<ck, ai>>
          /\ failures' = <<FailureDoc(name, ai, action, err)>>
          /\ result'.threw = "Executor aborted: unrecoverable action"
          /\ result'.error = err
          /\ result'.error # callPlanner(answer.response).threw]_vars

\* the planner call failed after the snapshot had been taken, and nothing is
\* left to try
C12_Witness ==
  /\ Answered
  /\ answer.snapshot
  /\ answer.response.kind = "error"
  /\ cands = <<>>
  /\ Len(thrown) > 0 /\ thrown[Len(thrown)] = <<ck, ai>>

\* the run has ended with an error
EndedWithError == pc \in {"aborted", "crashed", "rejected"}

\* C13: a run of a plan with checkpoints ends with an error only by the abort
\* of an action whose recovery accepted no candidate, the failure record
\* written; a capture, explicit or implicit, never ends the run, whether or
\* not its screenshot could be taken.
C13_OnlyAbortEndsWithError ==
  /\ []((Len(plan) > 0 /\ EndedWithError) =>
          /\ pc = "aborted"
          /\ cands = <<>>
          /\ \A k \in 1..Len(trials) : ~trials[k].accepted
          /\ Len(failures) = 1
          /\ thrown[Len(thrown)] = <<ck, ai>>
          /\ failures[1] = FailureDoc(name, ai, action, err))
  /\ [][(Len(plan) > 0 /\ ~EndedWithError /\ EndedWithError') =>
          /\ pc = "trial"
          /\ cands = <<>>
          /\ failures' = Append(failures, FailureDoc(name, ai, action, err))]_vars
  /\ [][saved' # saved => (pc' = "action" /\ failures' = failures)]_vars

\* an explicit and an implicit capture whose screenshots failed did not end
\* the run; the abort of a later action did
C13_Witness ==
  /\ pc = "aborted"
  /\ \E k \in 1..Len(saved) : saved[k].origin = "action" /\ ~saved[k].shot
  /\ \E k \in 1..Len(saved) : saved[k].origin = "implicit" /\ ~saved[k].shot

\* C14: a plan with no checkpoints, or with no action in any checkpoint, is
\* rejected: the call never returns a result for it, does nothing to the page
\* and writes no checkpoint record.
C14_EmptyPlanRejected ==
  (Len(plan) = 0 \/ Positions = {}) =>
    /\ pc # "done"
    /\ started = <<>>
    /\ fx = <<>>
    /\ saved = <<>>

\* C15: a result is returned only by a run in which no action aborted; it
\* reports success, the run identifier and the number of checkpoints of the
\* plan, every action of which has finished and every checkpoint of which has
\* been through its end-of-checkpoint capture step.
C15_SuccessResult ==
  pc = "done" =>
    /\ failures = <<>>
    /\ result = [status |-> "success", task_id |-> taskId, checkpoints_executed |-> Len(plan)]
    /\ ck = Len(plan)
    /\ \A p \in Positions : InSeq(p, finished)
    /\ \A c \in 1..Len(plan) : ~NeedsImplicitCapture(saved, markers, CheckpointName(plan[c]))

\* a plan of two checkpoints returned its result after an action had failed
\* and been recovered
C15_Witness ==
  /\ pc = "done"
  /\ Len(plan) = 2
  /\ Len(thrown) > 0
  /\ result.checkpoints_executed = 2

\* the error texts of the direct paths of the actions
DirectErrors ==
  {"waitForSelector: no selector matched", "click: no clickable selector matched",
   "click: no selector matched", "page.click: timeout",
   "click: expected dialog did not appear after click", "fill: no fillable selector matched",
   "tryFillWithFallback: failed to fill value", "goto action missing url",
   "page.goto: timeout", "page.screenshot failed"}

\* the catch block of a failed action is running
InRecovery == pc \in {"recover", "trial"}

\* C16: the failure record and the error of an aborted run name the
\* checkpoint, the index and the error of the action that failed, not of a
\* recovery trial; the recovery and the abort leave the records written so far
\* as they are.
C16_AbortNamesFailingAction ==
  /\ [](pc = "aborted" =>
          LET failing == thrown[Len(thrown)]
          IN /\ failures = <<[checkpoint |-> CheckpointName(plan[failing[1] + 1]),
                              action_index |-> failing[2],
                              action |-> ActionAt(failing),
                              error |-> err]>>
             /\ err \in DirectErrors
             /\ result.checkpoint = CheckpointName(plan[failing[1] + 1])
             /\ result.actionIndex = failing[2]
             /\ result.error = err)
  /\ [][(InRecovery /\ pc' # "action") => err' = err]_vars
  /\ [][(InRecovery \/ pc = "aborted") => (saved' = saved /\ markers' = markers)]_vars

\* a run aborted in its second checkpoint after trials had been made, with
\* records of the first checkpoint on disk
C16_Witness ==
  /\ pc = "aborted"
  /\ ck = 1
  /\ Len(trials) > 0
  /\ \E k \in 1..Len(saved) : saved[k].ck = 0

\* what the extractor of askPlannerForRecovery finds in a response as it was
\* sent: the strings under selector-like keys at any depth
Extracted(response) == uniq(collectFrom(SelectorArrays(response.json)))

\* C17: a JSON response that holds non-blank strings under selector-like keys,
\* plan-shaped or not, gives those strings as the recovery candidates of the
\* failing action (filtered and ordered as usual).
C17_TolerantExtraction ==
  (Answered /\ answer.response.kind = "json" /\ Extracted(answer.response) # <<>>) =>
    cands = orderedCandidates(action,
              filteredRecoveryCandidates(action, page, Extracted(answer.response)))

\* the action before position <<c, i>> in the same checkpoint is a waitForSelector
FollowsWait(c, i) == i > 0 /\ plan[c + 1].action_sequence[i].type = "waitForSelector"

\* targets of the side effects of the direct path recorded in res
ResTargets == {res.effects[k].target : k \in 1..Len(res.effects)}

\* the remembered selector passes the check of the action recorded in res
ResRevalidates ==
  \/ res.type = "click" /\ isSelectorClickable(res.page, res.remembered)
  \/ res.type = "fill" /\ isSelectorFillable(res.page, res.remembered)

\* C18: the remembered selector is a candidate of an action only if the action
\* is a click or a fill, directly follows a waitForSelector of its checkpoint
\* and the selector passes the action's check; a selector that fails the check
\* is forgotten and not used, and no other action resolves to, or acts on, a
\* remembered selector that it does not declare itself.
C18_OneShotScope ==
  (res.type # NULL /\ Truthy(res.remembered)) =>
    LET declared == ActionAt(<<res.ck, res.ai>>).selector
        foreign == ~InSeq(res.remembered, declared)
        offered == res.type \in {"click", "fill"} /\ FollowsWait(res.ck, res.ai)
    IN /\ res.oneShot <=> offered
       /\ (foreign /\ ~(offered /\ ResRevalidates)) =>
            /\ res.chosen # res.remembered
            /\ res.remembered \notin ResTargets
       /\ (foreign /\ offered /\ ~ResRevalidates /\ trials = <<>>) =>
            lastSelectorUsed # res.remembered

\* a fill that follows a click, not a wait, filled its own candidate while
\* another selector was remembered
C18_Witness ==
  /\ res.type = "fill"
  /\ res.ok
  /\ res.remembered = A
  /\ ~FollowsWait(res.ck, res.ai)
  /\ res.chosen = C
  /\ ResTargets = {C}

\* the references an action declares itself
ActionReferences(a) ==
  SeqToSet(a.selector) \cup SeqToSet(a.wait_for)
    \cup (IF Truthy(a.expected_dialog) THEN {a.expected_dialog} ELSE {})
    \cup (IF Truthy(a.text) THEN {TextLoc(a.text)} ELSE {})

\* the references checkpoint c can come to know by itself: those its actions
\* declare and, once it has asked the planner, those of the planner's answers
CheckpointReferences(c) ==
  UNION {ActionReferences(plan[c + 1].action_sequence[i]) :
           i \in 1..Len(plan[c + 1].action_sequence)}
    \cup (IF \E r \in 1..Len(requests) : requests[r][1] = c THEN ReplySelectors ELSE {})

\* C19: Selector Memory is empty when a checkpoint starts, and what an action
\* found remembered, and what a capture records as the selector used, is a
\* reference of the capture's own checkpoint, never one carried over from an
\* earlier checkpoint.
C19_CheckpointScope ==
  /\ (pc = "action" /\ ai = 0) => lastSelectorUsed = NULL
  /\ (res.type # NULL /\ Truthy(res.remembered)) =>
       res.remembered \in CheckpointReferences(res.ck)
  /\ \A k \in 1..Len(saved) :
       saved[k].selector_used \in {NULL} \cup CheckpointReferences(saved[k].ck)

\* the first checkpoint ended with a remembered selector in its capture, and the
\* capture of the second checkpoint records none
C19_Witness ==
  /\ plan = <<CkOneShot, CkOwnDir>>
  /\ \E j \in 1..Len(saved) : saved[j].ck = 0 /\ saved[j].selector_used \in {A, B, C}
  /\ \E k \in 1..Len(saved) : saved[k].ck = 1 /\ saved[k].selector_used = NULL

\* the run has just proceeded past a goto: the action before the current
\* position is a goto and nothing has run since
PastGoto ==
  /\ pc = "action"
  /\ ck < Len(plan)
  /\ ai > 0
  /\ ai - 1 < Len(plan[ck + 1].action_sequence)
  /\ ActionAt(<<ck, ai - 1>>).type = "goto"
  /\ InSeq(<<ck, ai - 1>>, finished)

\* C20: after every goto that the run proceeds past, whether page.goto
\* succeeded or the action failed and was recovered, Selector Memory is empty.
C20_EmptyAfterGoto == PastGoto => lastSelectorUsed = NULL

\* the action recorded in res, and that dlg and err still belong to it: no
\* trial has run since its direct path ended
ResAction == ActionAt(<<res.ck, res.ai>>)
ResDirect == res.type # NULL /\ trials = <<>>

\* the final page.click of the click recorded in res went through
ResClickPerformed ==
  /\ res.effects # <<>>
  /\ res.effects[Len(res.effects)] = Effect("click", res.chosen, NULL)
  /\ (res.ok \/ err # "page.click: timeout")

\* the run has just proceeded past an action of the given type
Past(type) ==
  /\ pc = "action"
  /\ ck < Len(plan)
  /\ ai > 0
  /\ ai - 1 < Len(plan[ck + 1].action_sequence)
  /\ ActionAt(<<ck, ai - 1>>).type = type
  /\ InSeq(<<ck, ai - 1>>, finished)

\* C21: a click with an expected_dialog whose page.click went through fails,
\* and goes to recovery, whenever the dialog does not appear; the run proceeds
\* past such a click only if the dialog appeared.
C21_ClickNeedsDialog ==
  /\ (ResDirect /\ res.type = "click" /\ Truthy(ResAction.expected_dialog)
        /\ ResClickPerformed) =>
       /\ dlg \in {"appeared", "missing"}
       /\ res.ok <=> dlg = "appeared"
       /\ dlg = "missing" =>
            /\ pc \in {"recover", "trial", "aborted"}
            /\ InSeq(<<res.ck, res.ai>>, thrown)
            /\ ~InSeq(<<res.ck, res.ai>>, finished)
            /\ err = "click: expected dialog did not appear after click"
  /\ (Past("click") /\ Truthy(ActionAt(<<ck, ai - 1>>).expected_dialog)) => dlg = "appeared"

\* a click went through, its dialog did not appear, and the planner is asked
C21_Witness ==
  /\ ResDirect
  /\ res.type = "click"
  /\ ResClickPerformed
  /\ dlg = "missing"
  /\ pc = "trial"
  /\ requests # <<>>
  /\ requests[Len(requests)] = <<res.ck, res.ai>>

\* the direct path of the action recorded in res has just completed and
\* nothing has run since
ResJustCompleted ==
  /\ res.type # NULL
  /\ res.ok
  /\ pc = "action"
  /\ ck = res.ck
  /\ ai = res.ai + 1

\* the click recorded in res clicked the remembered selector as its one-shot
ResUsedOneShot == res.oneShot /\ ResRevalidates /\ res.chosen = res.remembered

\* C22: after a click that completes, Selector Memory is empty if the click
\* used the remembered one-shot selector, and in every other case (a declared
\* candidate or the text locator was clicked) it is the selector clicked.
C22_ClickMemory ==
  (ResJustCompleted /\ res.type = "click") =>
    IF ResUsedOneShot THEN lastSelectorUsed = NULL ELSE lastSelectorUsed = res.chosen

\* C23: the run proceeds past a waitForSelector that declares an
\* expected_dialog, directly or through recovery, only if the wait for that
\* dialog was made and the dialog appeared.
C23_WaitNeedsDialog ==
  (Past("waitForSelector") /\ Truthy(ActionAt(<<ck, ai - 1>>).expected_dialog)) =>
    dlg = "appeared"

\* the candidates of the wait recorded in res that show up within their own
\* budget, by position
ResWaitHits ==
  {k \in 1..Len(ResAction.selector) : InOwnBudget(res.page, ResAction.selector, k)}

C25_ShortTextNotClicked ==
  (res.type = "click" /\ Truthy(ResAction.text) /\ Len(ResAction.text) <= 2) =>
    /\ TextLoc(ResAction.text) \notin ResTargets
    /\ res.chosen # TextLoc(ResAction.text)

\* the candidates of the click recorded in res: the remembered selector, when
\* it is offered, and the declared ones; and those the clickable filter keeps
ResClickCandidates ==
  (IF res.oneShot /\ Truthy(res.remembered) THEN {res.remembered} ELSE {})
    \cup SeqToSet(ResAction.selector)
ResClickable == {s \in ResClickCandidates : isSelectorClickable(res.page, s)}

\* the click recorded in res has a free text of more than 2 characters whose
\* text locator is on the page
ResTextAvailable ==
  /\ Truthy(ResAction.text)
  /\ Len(Trim(ResAction.text)) > 2
  /\ Reachable(res.page, TextLoc(ResAction.text))

\* C26: whenever none of a click's candidates resolves after the clickable
\* filter, the case that the filter leaves no candidate included, and the
\* action has a free text longer than 2 characters, the text locator is tried
\* before the click fails.
C26_TextBeforeFailure ==
  (/\ res.type = "click"
   /\ \A s \in ResClickable : ~Stays(res.page, s)
   /\ ResTextAvailable) =>
     TextLoc(ResAction.text) \in ResClicks

\* C26 (amended): whenever the clickable filter leaves at least one candidate
\* of a click and none of those resolves, and the action has a free text
\* longer than 2 characters, the text locator is tried before the click fails;
\* when the filter leaves no candidate the click fails at once and the text
\* locator is not tried.
C26_TextAfterFilteredCandidates ==
  /\ (/\ res.type = "click"
      /\ ResClickable # {}
      /\ \A s \in ResClickable : ~Stays(res.page, s)
      /\ ResTextAvailable) =>
        TextLoc(ResAction.text) \in ResClicks
  /\ (ResDirect /\ res.type = "click" /\ ResClickable = {}) =>
       /\ ~res.ok
       /\ res.effects = <<>>
       /\ err = "click: no clickable selector matched"

\* a click whose clickable candidates were gone at resolution clicked its
\* text locator and completed
C26_Witness ==
  /\ res.type = "click"
  /\ ResAction.text = " New"
  /\ ResClickable # {}
  /\ \A s \in ResClickable : ~Stays(res.page, s)
  /\ TextLoc(" New") \in ResClicks
  /\ res.ok

\* C27: the reference a completed fill records as used, and Selector Memory
\* when it is not empty afterwards, is the candidate the text was entered into.
C27_FillRecordsFilled ==
  (/\ res.type = "fill"
   /\ res.ok
   /\ res.effects # <<>>
   /\ res.effects[Len(res.effects)].op \in {"fill", "type"}) =>
     LET entered == res.effects[Len(res.effects)].target
     IN /\ res.chosen = entered
        /\ ResJustCompleted => lastSelectorUsed \in {NULL, entered}

\* the candidates of the fill recorded in res, in the order they are tried,
\* and those the fillable filter keeps
ResFillMerged ==
  mergedSelectors(res.oneShot,
                  IF isSelectorFillable(res.page, res.remembered) THEN res.remembered ELSE NULL,
                  ResAction.selector)
ResFillable == {s \in SeqToSet(ResFillMerged) : isSelectorFillable(res.page, s)}

\* the first attempt of the fill recorded in res was made and entered no text
ResFirstFillFails ==
  /\ res.type = "fill"
  /\ ResFillable # {}
  /\ ~ResAction.fallback_to_keyboard
  /\ \A s \in ResFillable : ~(Reachable(res.page, s) /\ FillWorks(res.page, s))

\* the candidate the retry resolves on the page after the wait for the dialog
ResRetry == trySelectorsSimple(res.page2, ResFillMerged, RetrySelectorMs)

\* C28: a fill whose first attempt fails and that declares an expected_dialog
\* resolves its candidates again and fills once more, one time only: when that
\* fill succeeds the action completes without recovery, otherwise it fails and
\* recovery starts; a failing fill without expected_dialog goes to recovery
\* without a retry.
C28_FillRetriesOnce ==
  (ResFirstFillFails /\ (ResJustCompleted \/ pc = "recover")) =>
    LET pos == <<res.ck, res.ai>>
        failed == /\ ~res.ok
                  /\ res.effects = <<>>
                  /\ pc = "recover"
                  /\ InSeq(pos, thrown)
                  /\ err = "tryFillWithFallback: failed to fill value"
    IN IF Truthy(ResAction.expected_dialog)
       THEN IF Truthy(ResRetry) /\ FillWorks(res.page2, ResRetry)
            THEN /\ res.ok
                 /\ res.effects = <<Effect("fill", ResRetry, ResAction.text)>>
                 /\ InSeq(pos, finished)
                 /\ ~InSeq(pos, thrown)
                 /\ ~InSeq(pos, requests)
            ELSE failed
       ELSE failed

\* the first attempt of a fill entered nothing, the retry filled a candidate,
\* and the run went on without recovery
C28_Witness ==
  /\ ResJustCompleted
  /\ ResFirstFillFails
  /\ Truthy(ResAction.expected_dialog)
  /\ res.effects = <<Effect("fill", ResRetry, ResAction.text)>>
  /\ requests = <<>>

\* C29: every action that finishes, directly, through the retry of a fill or
\* through recovery, has exactly one completion log entry with its checkpoint,
\* action index and type: the log has one entry per finished action, in plan
\* order.
C29_OneLogPerFinished ==
  /\ Len(log) = Len(finished)
  /\ \A k \in 1..Len(log) :
       k <= Len(finished) =>
         /\ log[k].checkpoint = CheckpointName(plan[finished[k][1] + 1])
         /\ log[k].actionIndex = finished[k][2]
         /\ log[k].type = ActionAt(finished[k]).type

\* the records saveCheckpoint wrote for the screenshot action recorded in res
ResCaptures ==
  {k \in 1..Len(saved) : /\ saved[k].origin = "action"
                         /\ saved[k].ck = res.ck
                         /\ saved[k].action_index = res.ai}

\* none of the verification candidates of the capture recorded in res appears
ResNothingVerified ==
  \A v \in SeqToSet(verificationCandidates(ResAction, res.remembered)) : ~Reachable(res.page, v)

\* C30: a capture is best-effort: whether or not a verification candidate
\* appears and whether or not the screenshot is taken, saveCheckpoint writes
\* its metadata (with the selector passed in when nothing was verified) and
\* returns, and the screenshot action completes; no screenshot action ever
\* fails and no capture ends the run.
C30_CaptureBestEffort ==
  /\ res.type = "screenshot" =>
       /\ res.ok
       /\ ResCaptures # {}
       /\ \A k \in ResCaptures :
            /\ saved[k].action_type = "screenshot"
            /\ ResNothingVerified => saved[k].selector_used = res.remembered
  /\ \A k \in 1..Len(thrown) : ActionAt(thrown[k]).type # "screenshot"
  /\ pc # "crashed"

\* a capture whose only verification candidate never appeared and whose
\* screenshot failed wrote its metadata, and the action completed
C30_Witness ==
  /\ ResJustCompleted
  /\ res.type = "screenshot"
  /\ Truthy(res.remembered)
  /\ ResNothingVerified
  /\ \E k \in ResCaptures : ~saved[k].shot /\ saved[k].selector_used = res.remembered
  /\ InSeq(<<res.ck, res.ai>>, finished)

\* the references a capture waits for, in the order of the claim: the Selector
\* Memory value passed in, the expected_dialog of the action, its wait_for list
CaptureOrder(act, passed) ==
  (IF Truthy(passed) THEN <<passed>> ELSE <<>>)
    \o (IF Truthy(act.expected_dialog) THEN <<act.expected_dialog>> ELSE <<>>)
    \o act.wait_for

\* the reference a capture of act on page pg must write when passed is the
\* Selector Memory value handed to it
MetaSelector(act, passed, pg) ==
  LET order == CaptureOrder(act, passed)
      seen == {i \in 1..Len(order) : Reachable(pg, order[i])}
  IN IF seen = {} THEN passed ELSE order[CHOOSE i \in seen : \A j \in seen : i <= j]

\* a step that adds a capture writes MetaSelector of the captured action
CaptureStep ==
  Len(saved') = Len(saved) + 1 =>
    saved'[Len(saved')].selector_used =
      MetaSelector(IF ai < Len(actions) THEN action ELSE lastAction, lastSelectorUsed, page')

\* C31: the selector written in a capture's metadata is the first of
\* [Selector Memory value passed in, expected_dialog, wait_for entries] that
\* appeared; when none appeared it is the Selector Memory value passed in.
C31_MetaSelector ==
  [][CaptureStep]_vars

\* a capture whose remembered selector was gone wrote the expected_dialog,
\* which appeared, although the wait_for target was there too
C31_Witness ==
  /\ plan = <<CkVerify>>
  /\ res.type = "screenshot"
  /\ res.remembered = A
  /\ ~Reachable(res.page, A)
  /\ Reachable(res.page, Dialog)
  /\ Reachable(res.page, B)
  /\ \E k \in ResCaptures : saved[k].selector_used = Dialog

\* a record or a marker exists in the directory of the current checkpoint
StoredForCheckpoint == name \in markers \/ \E i \in 1..Len(saved) : saved[i].dir = name

\* the step that ends a checkpoint: with nothing stored for the checkpoint it
\* adds one implicit capture of the last action and then the marker; with
\* something stored it adds nothing
CheckpointEndStep ==
  (pc = "action" /\ ck' = ck + 1) =>
    IF StoredForCheckpoint
    THEN saved' = saved /\ markers' = markers
    ELSE /\ Len(saved') = Len(saved) + 1
         /\ SubSeq(saved', 1, Len(saved)) = saved
         /\ LET rec == saved'[Len(saved')]
                n == Len(actions)
            IN /\ rec.origin = "implicit"
               /\ rec.dir = name
               /\ rec.ck = ck
               /\ rec.action_index = (IF n - 1 > 0 THEN n - 1 ELSE 0)
               /\ rec.action_type = (IF n > 0 THEN actions[n].type ELSE NULL)
               /\ rec.selector_used =
                    MetaSelector(IF n > 0 THEN actions[n] ELSE Undefined, lastSelectorUsed, page')
         /\ markers' = markers \cup {name}

\* an implicit capture is only added by the step that ends its checkpoint
ImplicitOnlyAtEnd ==
  (Len(saved') > Len(saved) /\ saved'[Len(saved')].origin = "implicit") =>
    (pc = "action" /\ ai >= Len(actions) /\ ck' = ck + 1)

\* C32: at the end of a checkpoint whose actions all finished, if neither a
\* record nor a marker is stored for the checkpoint, exactly one implicit
\* capture is taken, of the last action, with index max(0, n - 1) and the
\* current Selector Memory value, and the marker is written; if something is
\* stored no implicit capture is taken, so a run over the storage of an
\* earlier run takes none.
C32_ImplicitCapture ==
  [][CheckpointEndStep /\ ImplicitOnlyAtEnd]_vars

\* both checkpoints of a first run ended with one implicit capture each, the
\* second of an empty checkpoint, and both markers are written
C32_Witness ==
  /\ plan = <<CkKeys, CkEmpty>>
  /\ pc = "done"
  /\ Len(saved) = 2
  /\ saved[1].origin = "implicit" /\ saved[1].dir = "keys_checkpoint"
  /\ saved[2].origin = "implicit" /\ saved[2].dir = "empty_checkpoint"
  /\ saved[2].action_index = 0
  /\ markers = {"keys_checkpoint", "empty_checkpoint"}

\* the selectors of the planner's answer to the current recovery request
Offered == askPlannerForRecovery(answer.response).selectors

\* selector s passes the check of the kind of the failing action on page pg
PassesKindCheck(pg, s) ==
  CASE action.type = "click" -> isSelectorClickable(pg, s)
    [] action.type = "fill"  -> isSelectorFillable(pg, s)
    [] OTHER                 -> TRUE

\* the candidates left when the loop over them starts are the offered
\* selectors that pass the check of the failing action's kind
CandidatesFiltered ==
  (pc = "trial" /\ trials = <<>>) =>
    SeqToSet(cands) = {s \in SeqToSet(Offered) : PassesKindCheck(page, s)}

\* a trial takes the next candidate left; with none left there is no trial
\* and the run aborts
TrialStep ==
  /\ Len(trials') = Len(trials) + 1 =>
       /\ pc = "trial"
       /\ cands # <<>>
       /\ trials'[Len(trials')].candidate = Head(cands)
       /\ cands' \in {Tail(cands), <<>>}
  /\ (pc = "trial" /\ cands = <<>>) => (pc' = "aborted" /\ trials' = trials)

\* C33: recovery candidates are tried only if they pass the check of the
\* failing action's kind: clickable for a click, fillable for a fill, no check
\* for any other kind; a click or fill with no candidate left after the check
\* is given no trial and the run aborts.
C33_FilteredTrials ==
  []CandidatesFiltered /\ [][TrialStep]_vars

\* the planner offered two selectors for a failing click; the check kept one
C33_Witness ==
  /\ pc = "trial"
  /\ trials = <<>>
  /\ action.type = "click"
  /\ Offered = <<"text=New", C>>
  /\ cands = <<C>>
  /\ ~isSelectorClickable(page, "text=New")

\* position of s in a list without duplicates
PositionIn(q, s) == CHOOSE i \in 1..Len(q) : q[i] = s

\* candidate s contains the free text of the failing action, case-insensitively
ContainsFreeText(s) ==
  /\ Truthy(action.text)
  /\ Len(Trim(action.text)) > 0
  /\ Includes(ToLower(s), ToLower(Trim(action.text)))

\* C34: the candidates are tried with all those that contain the failing
\* action's free text before all those that do not, each group in the order of
\* the planner's response; with no free text the order of the response is kept.
C34_CandidateOrder ==
  (pc = "trial" /\ trials = <<>>) =>
    \A i, j \in 1..Len(cands) :
      i < j =>
        /\ ContainsFreeText(cands[j]) => ContainsFreeText(cands[i])
        /\ (ContainsFreeText(cands[i]) <=> ContainsFreeText(cands[j])) =>
             PositionIn(Offered, cands[i]) < PositionIn(Offered, cands[j])

\* the planner listed "#c" before "text=New" for a failing click with the free
\* text " New": the candidate that contains the text is tried first
C34_Witness ==
  /\ pc = "trial"
  /\ trials = <<>>
  /\ action.type = "click"
  /\ action.text = " New"
  /\ Offered = <<C, "text=New">>
  /\ cands = <<"text=New", C>>

----------------------------------------------------------------------------
(* The extraction of askPlannerForRecovery alone (lines 287-308), applied   *)
(* to responses that the run's planner replies leave out: padded, blank and *)
(* non-string entries, the same selector under two keys, and more selectors *)
(* than the cap.                                                            *)

\* longest list of padded entries, and longest list of distinct selectors
MaxPaddedSelectors == 2
MaxManySelectors == 13

\* entries of a selector array: "#c" bare and padded, a blank string, a
\* value that is not a string
PaddedSelectors == {C, " #c", "#c ", " ", NULL}

\* n distinct selectors
ManySelectors(n) == [i \in 1..n |-> "#s" \o ToString(i)]

\* the selectors q under the key selector of two actions of the plan
TwiceReply(q) ==
  Response("json", Json({"plan"}, <<ResponseAction("click", q), ResponseAction("click", q)>>,
                        <<>>, <<>>, <<>>))

ExtractReplies ==
  {Response("error", NoJson), Response("text", NoJson)}
    \cup UNION {{PlanReply(q), CheckpointsReply(q), BareReply(q), NestedReply(q), TwiceReply(q)} :
                  q \in SeqsUpTo(PaddedSelectors, MaxPaddedSelectors)}
    \cup {PlanReply(ManySelectors(n)) : n \in 0..MaxManySelectors}

InitExtract ==
  /\ plan = <<>>
  /\ pc = "reply"
  /\ ck = 0
  /\ ai = 0
  /\ lastSelectorUsed = NULL
  /\ page = NoPage
  /\ res = NoRes
  /\ dlg = "n/a"
  /\ cands = <<>>
  /\ err = NULL
  /\ fx = <<>>
  /\ log = <<>>
  /\ trials = <<>>
  /\ started = <<>>
  /\ thrown = <<>>
  /\ finished = <<>>
  /\ requests = <<>>
  /\ saved = <<>>
  /\ markers = {}
  /\ failures = <<>>
  /\ answer = NoAnswer
  /\ result = NULL

\* callPlanner returns or throws (line 279)
Reply ==
  /\ pc = "reply"
  /\ \E response \in ExtractReplies : answer' = Answer(TRUE, response)
  /\ pc' = "extract"
  /\ UNCHANGED <<plan, ck, ai, lastSelectorUsed, page, res, dlg, cands, err, fx, log,
                 trials, started, thrown, finished, requests, saved, markers, failures,
                 result>>

\* the walk, the de-duplication and the cap (lines 287-308)
Extract ==
  /\ pc = "extract"
  /\ cands' = askPlannerForRecovery(answer.response).selectors
  /\ pc' = "extracted"
  /\ UNCHANGED <<plan, ck, ai, lastSelectorUsed, page, res, dlg, err, fx, log,
                 trials, started, thrown, finished, requests, saved, markers, failures,
                 answer, result>>

NextExtract ==
  \/ Reply
  \/ Extract

SpecExtract == InitExtract /\ [][NextExtract]_vars

\* the strings under the selector-like keys of the response
StringsUnderKeys(response) ==
  LET plannerOut == callPlanner(response)
  IN IF plannerOut.threw # NULL THEN {}
     ELSE UNION {SeqToSet(arr) \ {NULL} :
                   arr \in SeqToSet(SelectorArrays(plannerOut.value))}

\* C35: the extracted recovery candidate list has no duplicate, has at most
\* 12 entries, and each entry is a non-empty trimmed string found under a
\* selector-like key of the response.
C35_ExtractedList ==
  pc = "extracted" =>
    /\ \A i, j \in 1..Len(cands) : cands[i] = cands[j] => i = j
    /\ Len(cands) <= MaxRecoverySelectors
    /\ \A i \in 1..Len(cands) :
         /\ cands[i] # ""
         /\ Trim(cands[i]) = cands[i]
         /\ \E x \in StringsUnderKeys(answer.response) : Trim(x) = cands[i]

----------------------------------------------------------------------------
(* isSelectorClickable alone (lines 202-245), applied to one element with   *)
(* every combination of the facts its probes read.  The page may change     *)
(* between two probes, so the facts are independent of one another.         *)

Probes == {"locator", "count", "isVisible", "boundingBox", "isEnabled", "evaluate"}

ProbeTags == {"div", "button", "a", "input"}
ProbeRoles == {"", "Button", "tablist", "textbox"}

\* the facts of an element; at most one probe throws
ProbeFacts ==
  [count : {0, 1}, visible : BOOLEAN, box : BOOLEAN, enabled : BOOLEAN,
   tag : ProbeTags, role : ProbeRoles, hasOnClick : BOOLEAN, hasTabIndex : BOOLEAN,
   contenteditable : {FALSE}, throws : {{}} \cup {{p} : p \in Probes}]

\* an element given by its facts, in the DOM when the check starts
Probed(f) == [kind |-> "probed", from |-> 0, detaches |-> FALSE, facts |-> f]

\* the selector argument: a selector, the empty string, undefined
ProbeSelectors == {A, "", NULL}

InitClickable ==
  /\ plan = <<>>
  /\ pc = "classify"
  /\ ck = 0
  /\ ai = 0
  /\ lastSelectorUsed = NULL
  /\ page \in {[s \in {A} |-> Probed(f)] : f \in ProbeFacts}
  /\ res = NoRes
  /\ dlg = "n/a"
  /\ cands = <<>>
  /\ err = NULL
  /\ fx = <<>>
  /\ log = <<>>
  /\ trials = <<>>
  /\ started = <<>>
  /\ thrown = <<>>
  /\ finished = <<>>
  /\ requests = <<>>
  /\ saved = <<>>
  /\ markers = {}
  /\ failures = <<>>
  /\ answer = NoAnswer
  /\ result = NULL

\* a call of isSelectorClickable(page, selector)
Classify ==
  /\ pc = "classify"
  /\ \E selector \in ProbeSelectors :
       result' = [selector |-> selector, clickable |-> isSelectorClickable(page, selector)]
  /\ pc' = "classified"
  /\ UNCHANGED <<plan, ck, ai, lastSelectorUsed, page, res, dlg, cands, err, fx, log,
                 trials, started, thrown, finished, requests, saved, markers, failures,
                 answer>>

NextClickable ==
  \/ Classify

SpecClickable == InitClickable /\ [][NextClickable]_vars

\* the element the classified selector names, and the facts its probes
\* reported: a probe that threw reported nothing
Classified == pc = "classified"
Probe == page[A].facts
Reported ==
  [count |-> IF "count" \in Probe.throws THEN 0 ELSE Probe.count,
   visible |-> "isVisible" \notin Probe.throws /\ Probe.visible,
   box |-> "boundingBox" \notin Probe.throws /\ Probe.box,
   enabled |-> "isEnabled" \notin Probe.throws /\ Probe.enabled,
   tag |-> IF "evaluate" \in Probe.throws THEN "" ELSE Probe.tag,
   role |-> IF "evaluate" \in Probe.throws THEN "" ELSE Probe.role,
   hasOnClick |-> "evaluate" \notin Probe.throws /\ Probe.hasOnClick,
   hasTabIndex |-> "evaluate" \notin Probe.throws /\ Probe.hasTabIndex]

InteractiveTag(f) == f.tag \in {"button", "a", "input"}
InteractiveRole(f) ==
  \E r \in {"button", "link", "menuitem", "option", "tab", "checkbox", "radio"} :
    Includes(ToLower(f.role), r)

\* C36 as stated: true exactly when the element is visible, has a bounding
\* box and (a) has an interactive tag and is enabled, or (b) has an interactive
\* role and is enabled, or (c) has a click handler or a tab index and is
\* enabled or has geometry; false in every other case and when a probe throws.
C36_ClickableTable ==
  Classified =>
    (result.clickable <=>
       /\ Truthy(result.selector)
       /\ Probe.throws = {}
       /\ Probe.count > 0 /\ Probe.visible /\ Probe.box
       /\ \/ InteractiveTag(Probe) /\ Probe.enabled
          \/ InteractiveRole(Probe) /\ Probe.enabled
          \/ (Probe.hasOnClick \/ Probe.hasTabIndex) /\ (Probe.enabled \/ Probe.box))

\* C36, amended: true exactly when the probes report the element visible and
\* with a bounding box and (a) an interactive tag and enabled, or (b) an
\* interactive role and enabled, or (c) a click handler, or a tab index and
\* enabled; a probe that throws reports nothing (not found, not visible, no
\* box, not enabled, no tag, role, handler or tab index); false in every other
\* case.
C36_ClickableByProbes ==
  Classified =>
    (result.clickable <=>
       /\ Truthy(result.selector)
       /\ "locator" \notin Probe.throws
       /\ Reported.count > 0 /\ Reported.visible /\ Reported.box
       /\ \/ InteractiveTag(Reported) /\ Reported.enabled
          \/ InteractiveRole(Reported) /\ Reported.enabled
          \/ Reported.hasOnClick
          \/ Reported.hasTabIndex /\ Reported.enabled)

\* a rendered, disabled div with a tab index and no click handler is
\* classified as not clickable
C36_Witness ==
  /\ Classified
  /\ result.selector = A
  /\ Probe.throws = {}
  /\ Probe.count = 1 /\ Probe.visible /\ Probe.box /\ ~Probe.enabled
  /\ Probe.tag = "div" /\ Probe.role = ""
  /\ ~Probe.hasOnClick /\ Probe.hasTabIndex
  /\ ~result.clickable

----------------------------------------------------------------------------
\* C37: a click that completes by its direct path performed exactly one click
\* on the page, on the reference recorded as used.
C37_OneClick ==
  (ResJustCompleted /\ res.type = "click") =>
    res.effects = <<Effect("click", res.chosen, NULL)>>

----------------------------------------------------------------------------
\* C38: a run that returns success loaded the URL of every goto of the plan:
\* no goto whose page load failed was passed over by the recovery.
C38_SuccessMeansLoaded ==
  (pc = "done" /\ result.status = "success") =>
    \A p \in Positions : ActionAt(p).type = "goto" => ~InSeq(p, thrown)

----------------------------------------------------------------------------
\* C39: a fill never enters text into a reference that failed the fillable
\* check of that action: every reference that the first attempt or the retry
\* of a completed fill filled or typed into is one of the candidates that
\* passed isSelectorFillable.  (The candidates of the recovery trials are the
\* filtered ones, see C33.)
C39_FillsOnlyFillable ==
  (ResJustCompleted /\ res.type = "fill") =>
    \A k \in 1..Len(res.effects) :
      res.effects[k].op \in {"fill", "type"} => res.effects[k].target \in ResFillable

----------------------------------------------------------------------------
\* executeCheckpointedPlan returned or threw
Terminated == pc \in {"done", "aborted", "rejected", "crashed"}

\* no two entries of q are equal
NoRepeat(q) == \A m, n \in 1..Len(q) : m < n => q[m] # q[n]

\* the trials made and the candidates left of the current recovery
TrialsBounded == Len(trials) + Len(cands) <= MaxRecoverySelectors

\* C40: every run over a finite plan terminates, in success or by a throw,
\* when every page wait honours its timeout and the planner call returns or
\* throws (each step of the run is then taken); no action is entered twice,
\* each failing action gets one recovery request, and a recovery makes at
\* most 12 trials.
C40_Terminates ==
  /\ <>Terminated
  /\ []NoRepeat(started)
  /\ []NoRepeat(requests)
  /\ []TrialsBounded

\* a run that ended in success after two of its actions had failed and been
\* recovered
C40_Witness ==
  /\ pc = "done"
  /\ Len(thrown) = 2
  /\ Len(requests) = 2

====
